---- MODULE Spec2Model ----
(***************************************************************************)
(* Ledger core of financial_accounting: the three in-memory repositories,  *)
(* the caching proxy in front of the account repository, the three facades *)
(* and the import loop that merges converted records into the live stores. *)
(*                                                                         *)
(* Representation.  A Python dict {id: entity} is a sequence of entity     *)
(* records in insertion order (dicts iterate in insertion order).  An      *)
(* Optional value is <<>> (None) or <<v>>.  Decimal amounts are integers.  *)
(* A name is a sequence of one-character strings, so that str.strip() can  *)
(* be computed.  Every ValueError raised by the code is told apart by the  *)
(* raise site: "NotFound", "DuplicateKey", "InvalidState",                 *)
(* "ValidationFailed".  The date and description of an operation are       *)
(* payload that no ledger rule reads; they are left out of the record.     *)
(*                                                                         *)
(* A call is a function from the world (all stores and the proxy caches)   *)
(* to [w, err, val]: the world it leaves behind, "ok" or the error raised, *)
(* and the value returned.  What a call changed before it raised stays     *)
(* changed in w.                                                           *)
(***************************************************************************)
EXTENDS Integers, Sequences, FiniteSets, TLC

VARIABLES accounts, accounts_next_id,
          categories, categories_next_id,
          operations, operations_next_id,
          cache, all_cache,
          result, pc

vars == <<accounts, accounts_next_id, categories, categories_next_id,
          operations, operations_next_id, cache, all_cache, result, pc>>

stores == <<accounts, accounts_next_id, categories, categories_next_id,
            operations, operations_next_id>>

---------------------------------------------------------------------------
(* Bounds of the model *)

MaxAccounts == 2
MaxCategories == 1
MaxOperations == 2
MaxRecords == 3

(* Inputs *)

INCOME == "income"
EXPENSE == "expense"
OperationType == {INCOME, EXPENSE}

None == <<>>
Some(v) == <<v>>

Main == <<"M", "a", "i", "n">>
Blank == <<" ">>
Names == {Main, Blank}

Amounts == {0, 1, 2}
CreateAmounts == {-1, 0, 1}
OpeningBalances == {-1, 0, 1}
AccountIds == 0 .. MaxAccounts
CategoryIds == 0 .. MaxCategories
OperationIds == 0 .. MaxOperations
Optional(S) == {None} \cup {Some(v) : v \in S}

---------------------------------------------------------------------------
(* Python values *)

Whitespace == {" "}

RECURSIVE lstrip(_)
lstrip(s) == IF s # <<>> /\ Head(s) \in Whitespace THEN lstrip(Tail(s)) ELSE s

RECURSIVE rstrip(_)
rstrip(s) ==
    IF s # <<>> /\ s[Len(s)] \in Whitespace
    THEN rstrip(SubSeq(s, 1, Len(s) - 1))
    ELSE s

strip(s) == rstrip(lstrip(s))

(* truth value of an Optional number: None and 0 are false *)
Truthy(o) == o # None /\ o[1] # 0

BankAccount(id, name, balance) == [id |-> id, name |-> name, balance |-> balance]
Category(id, type, name) == [id |-> id, type |-> type, name |-> name]
Operation(id, type, bank_account_id, amount, category_id) ==
    [id |-> id, type |-> type, bank_account_id |-> bank_account_id,
     amount |-> amount, category_id |-> category_id]

update_balance_plus(balance, amount, operation_type) == balance + amount

update_balance(balance, amount, operation_type) ==
    IF operation_type = INCOME THEN balance + amount ELSE balance - amount

(* dict operations on a sequence of records keyed by .id *)
DictHas(d, id) == \E i \in 1 .. Len(d) : d[i].id = id
DictGet(d, id) ==
    IF DictHas(d, id) THEN Some(d[CHOOSE i \in 1 .. Len(d) : d[i].id = id]) ELSE None
DictSet(d, e) ==
    IF DictHas(d, e.id)
    THEN [i \in 1 .. Len(d) |-> IF d[i].id = e.id THEN e ELSE d[i]]
    ELSE Append(d, e)
DictDel(d, id) == SelectSeq(d, LAMBDA e : e.id # id)
Max(a, b) == IF a >= b THEN a ELSE b

(* An error is the raise site's message: its kind, the entity it is about *)
(* and the id it names (None when it names none).                          *)
Error(kind, about, id) == [kind |-> kind, about |-> about, id |-> id]
NoError == Error("ok", "", None)
Ok(w, v) == [w |-> w, err |-> NoError, val |-> v]
Raise(w, e) == [w |-> w, err |-> e, val |-> None]
IsOk(r) == r.err.kind = "ok"

W == [accounts |-> accounts, accounts_next_id |-> accounts_next_id,
      categories |-> categories, categories_next_id |-> categories_next_id,
      operations |-> operations, operations_next_id |-> operations_next_id,
      cache |-> cache, all_cache |-> all_cache]

---------------------------------------------------------------------------
(* DomainFactory *)

create_bank_account_unchecked(account_id, name, initial_balance) ==
    [err |-> NoError, val |-> Some(BankAccount(account_id, name, initial_balance))]

create_bank_account(account_id, name, initial_balance) ==
    IF initial_balance < 0
    THEN [err |-> Error("ValidationFailed", "balance", None), val |-> None]
    ELSE IF strip(name) = <<>>
    THEN [err |-> Error("ValidationFailed", "account name", None), val |-> None]
    ELSE [err |-> NoError, val |-> Some(BankAccount(account_id, name, initial_balance))]

Factory_create_category(category_id, category_type, name) ==
    IF strip(name) = <<>>
    THEN [err |-> Error("ValidationFailed", "category name", None), val |-> None]
    ELSE [err |-> NoError, val |-> Some(Category(category_id, category_type, name))]

Factory_create_operation(operation_id, operation_type, bank_account_id, amount, category_id) ==
    IF amount <= 0 THEN [err |-> Error("ValidationFailed", "amount", None), val |-> None]
    ELSE [err |-> NoError,
          val |-> Some(Operation(operation_id, operation_type, bank_account_id,
                                 amount, category_id))]

---------------------------------------------------------------------------
(* BankAccountRepository *)

BankAccountRepository_get_by_id(w, id) == DictGet(w.accounts, id)
BankAccountRepository_get_all(w) == w.accounts
BankAccountRepository_add_last_id(w, account) ==
    IF DictHas(w.accounts, account.id)
    THEN Raise(w, Error("DuplicateKey", "account", Some(account.id)))
    ELSE Ok([w EXCEPT !.accounts = DictSet(@, account),
                      !.accounts_next_id = account.id + 1], None)

BankAccountRepository_add(w, account) ==
    IF DictHas(w.accounts, account.id)
    THEN Raise(w, Error("DuplicateKey", "account", Some(account.id)))
    ELSE Ok([w EXCEPT !.accounts = DictSet(@, account),
                      !.accounts_next_id = Max(@, account.id + 1)], None)
BankAccountRepository_update_upsert(w, account) ==
    Ok([w EXCEPT !.accounts = DictSet(@, account)], None)

BankAccountRepository_update(w, account) ==
    IF ~DictHas(w.accounts, account.id)
    THEN Raise(w, Error("NotFound", "account", Some(account.id)))
    ELSE Ok([w EXCEPT !.accounts = DictSet(@, account)], None)
BankAccountRepository_delete(w, id) ==
    IF ~DictHas(w.accounts, id) THEN Raise(w, Error("NotFound", "account", Some(id)))
    ELSE Ok([w EXCEPT !.accounts = DictDel(@, id)], None)
BankAccountRepository_get_next_id(w) == w.accounts_next_id

(* CategoryRepository *)

CategoryRepository_get_by_id(w, id) == DictGet(w.categories, id)
CategoryRepository_get_all(w) == w.categories
CategoryRepository_add(w, category) ==
    IF DictHas(w.categories, category.id)
    THEN Raise(w, Error("DuplicateKey", "category", Some(category.id)))
    ELSE Ok([w EXCEPT !.categories = DictSet(@, category),
                      !.categories_next_id = Max(@, category.id + 1)], None)
CategoryRepository_update(w, category) ==
    IF ~DictHas(w.categories, category.id)
    THEN Raise(w, Error("NotFound", "category", Some(category.id)))
    ELSE Ok([w EXCEPT !.categories = DictSet(@, category)], None)
CategoryRepository_delete(w, id) ==
    IF ~DictHas(w.categories, id) THEN Raise(w, Error("NotFound", "category", Some(id)))
    ELSE Ok([w EXCEPT !.categories = DictDel(@, id)], None)
CategoryRepository_get_next_id(w) == w.categories_next_id

(* OperationRepository *)

OperationRepository_get_by_id(w, id) == DictGet(w.operations, id)
OperationRepository_get_all(w) == w.operations
OperationRepository_add_overwrite(w, operation) ==
    Ok([w EXCEPT !.operations = DictSet(@, operation),
                 !.operations_next_id = Max(@, operation.id + 1)], None)

OperationRepository_add_last_id(w, operation) ==
    IF DictHas(w.operations, operation.id)
    THEN Raise(w, Error("DuplicateKey", "operation", Some(operation.id)))
    ELSE Ok([w EXCEPT !.operations = DictSet(@, operation),
                      !.operations_next_id = operation.id + 1], None)

OperationRepository_add(w, operation) ==
    IF DictHas(w.operations, operation.id)
    THEN Raise(w, Error("DuplicateKey", "operation", Some(operation.id)))
    ELSE Ok([w EXCEPT !.operations = DictSet(@, operation),
                      !.operations_next_id = Max(@, operation.id + 1)], None)
OperationRepository_update(w, operation) ==
    IF ~DictHas(w.operations, operation.id)
    THEN Raise(w, Error("NotFound", "operation", Some(operation.id)))
    ELSE Ok([w EXCEPT !.operations = DictSet(@, operation)], None)
OperationRepository_delete(w, id) ==
    IF ~DictHas(w.operations, id) THEN Raise(w, Error("NotFound", "operation", Some(id)))
    ELSE Ok([w EXCEPT !.operations = DictDel(@, id)], None)
get_by_account_id(w, account_id) ==
    SelectSeq(w.operations, LAMBDA op : op.bank_account_id = account_id)
OperationRepository_get_next_id(w) == w.operations_next_id

---------------------------------------------------------------------------
(* BankAccountRepositoryProxy: cache is the id-keyed _cache (a set of     *)
(* account records, at most one per id), all_cache the Optional snapshot. *)

CacheHas(c, id) == \E a \in c : a.id = id
CacheGet(c, id) == CHOOSE a \in c : a.id = id

invalidate_cache_keep_ids(w) == [w EXCEPT !.all_cache = None]

invalidate_cache_keep_snapshot(w) == [w EXCEPT !.cache = {}]

invalidate_cache(w) == [w EXCEPT !.cache = {}, !.all_cache = None]

Proxy_get_by_id(w, id) ==
    IF CacheHas(w.cache, id) THEN Ok(w, Some(CacheGet(w.cache, id)))
    ELSE LET account == BankAccountRepository_get_by_id(w, id)
         IN  IF account # None
             THEN Ok([w EXCEPT !.cache = @ \cup {account[1]}], account)
             ELSE Ok(w, account)

Proxy_get_all(w) ==
    IF w.all_cache # None THEN Ok(w, w.all_cache[1])
    ELSE LET accs == BankAccountRepository_get_all(w)
         IN  Ok([w EXCEPT !.all_cache = Some(accs),
                          !.cache = {accs[i] : i \in 1 .. Len(accs)}], accs)

Proxy_add(w, account) ==
    LET r == BankAccountRepository_add(w, account)
    IN  IF ~IsOk(r) THEN r ELSE Ok(invalidate_cache(r.w), None)

Proxy_update(w, account) ==
    LET r == BankAccountRepository_update(w, account)
    IN  IF ~IsOk(r) THEN r ELSE Ok(invalidate_cache(r.w), None)

Proxy_delete(w, id) ==
    LET r == BankAccountRepository_delete(w, id)
    IN  IF ~IsOk(r) THEN r ELSE Ok(invalidate_cache(r.w), None)

Proxy_get_next_id_cached(w) ==
    IF w.all_cache # None THEN Len(w.all_cache[1]) + 1
    ELSE BankAccountRepository_get_next_id(w)

Proxy_get_next_id(w) == BankAccountRepository_get_next_id(w)

---------------------------------------------------------------------------
(* Object identity.  The proxy caches the very objects the repository     *)
(* holds, so an assignment to a field of an account obtained from the     *)
(* proxy is seen at once wherever that object is held.  Objects are told  *)
(* apart by value: every holder of a record equal to the old one sees the *)
(* new one.                                                               *)

SetBalance(w, account, balance) ==
    LET new == [account EXCEPT !.balance = balance]
        swap(a) == IF a = account THEN new ELSE a
    IN  [w EXCEPT !.accounts = [i \in 1 .. Len(@) |-> swap(@[i])],
                  !.cache = {swap(a) : a \in @},
                  !.all_cache = IF @ = None THEN None
                                ELSE Some([i \in 1 .. Len(@[1]) |-> swap(@[1][i])])]

---------------------------------------------------------------------------
(* BankAccountFacade *)

create_account_no_opening(w, name, initial_balance) ==
    LET account_id == Proxy_get_next_id(w)
        f == create_bank_account(account_id, name, initial_balance)
    IN  IF ~IsOk(f) THEN Raise(w, f.err)
        ELSE LET a == Proxy_add(w, f.val[1])
             IN  IF ~IsOk(a) THEN a ELSE Ok(a.w, f.val)

create_account(w, name, initial_balance) ==
    LET account_id == Proxy_get_next_id(w)
        f == create_bank_account(account_id, name, initial_balance)
    IN  IF ~IsOk(f) THEN Raise(w, f.err)
        ELSE LET a == Proxy_add(w, f.val[1])
             IN  IF ~IsOk(a) THEN a
                 ELSE IF initial_balance > 0
                 THEN LET operation_id == OperationRepository_get_next_id(a.w)
                          o == OperationRepository_add(a.w,
                                   Operation(operation_id, INCOME, account_id,
                                             initial_balance, None))
                      IN  IF ~IsOk(o) THEN o ELSE Ok(o.w, f.val)
                 ELSE Ok(a.w, f.val)

get_account(w, account_id) == Proxy_get_by_id(w, account_id)

update_account(w, account_id, name) ==
    LET g == Proxy_get_by_id(w, account_id)
    IN  IF g.val = None THEN Raise(g.w, Error("NotFound", "account", Some(account_id)))
        ELSE LET updated_account == BankAccount(g.val[1].id, name, g.val[1].balance)
                 u == Proxy_update(g.w, updated_account)
             IN  IF ~IsOk(u) THEN u ELSE Ok(u.w, Some(updated_account))

delete_account_unchecked(w, account_id) == Proxy_delete(w, account_id)

delete_account(w, account_id) ==
    IF get_by_account_id(w, account_id) # <<>>
    THEN Raise(w, Error("InvalidState", "account has operations", None))
    ELSE Proxy_delete(w, account_id)

get_all_accounts(w) == Proxy_get_all(w)

RECURSIVE SignedSum(_, _)
SignedSum(ops, new_balance) ==
    IF ops = <<>> THEN new_balance
    ELSE SignedSum(Tail(ops),
                   IF Head(ops).type = INCOME
                   THEN new_balance + Head(ops).amount
                   ELSE new_balance - Head(ops).amount)

(* sum(op.amount for op in operations if op.type == operation_type) *)
RECURSIVE Total(_, _)
Total(ops, operation_type) ==
    IF ops = <<>> THEN 0
    ELSE (IF Head(ops).type = operation_type THEN Head(ops).amount ELSE 0)
         + Total(Tail(ops), operation_type)

recalculate_balance_unsigned(w, account_id) ==
    LET g == Proxy_get_by_id(w, account_id)
    IN  IF g.val = None THEN Raise(g.w, Error("NotFound", "account", Some(account_id)))
        ELSE LET ops == get_by_account_id(g.w, account_id)
                 new_balance == Total(ops, INCOME) + Total(ops, EXPENSE)
                 w1 == SetBalance(g.w, g.val[1], new_balance)
                 u == Proxy_update(w1, [g.val[1] EXCEPT !.balance = new_balance])
             IN  IF ~IsOk(u) THEN u ELSE Ok(u.w, Some(new_balance))

recalculate_balance_accumulate(w, account_id) ==
    LET g == Proxy_get_by_id(w, account_id)
    IN  IF g.val = None THEN Raise(g.w, Error("NotFound", "account", Some(account_id)))
        ELSE LET ops == get_by_account_id(g.w, account_id)
                 new_balance == SignedSum(ops, g.val[1].balance)
                 w1 == SetBalance(g.w, g.val[1], new_balance)
                 u == Proxy_update(w1, [g.val[1] EXCEPT !.balance = new_balance])
             IN  IF ~IsOk(u) THEN u ELSE Ok(u.w, Some(new_balance))

recalculate_balance(w, account_id) ==
    LET g == Proxy_get_by_id(w, account_id)
    IN  IF g.val = None THEN Raise(g.w, Error("NotFound", "account", Some(account_id)))
        ELSE LET ops == get_by_account_id(g.w, account_id)
                 new_balance == SignedSum(ops, 0)
                 w1 == SetBalance(g.w, g.val[1], new_balance)
                 u == Proxy_update(w1, [g.val[1] EXCEPT !.balance = new_balance])
             IN  IF ~IsOk(u) THEN u ELSE Ok(u.w, Some(new_balance))

---------------------------------------------------------------------------
(* CategoryFacade *)

create_category(w, name, category_type) ==
    LET category_id == CategoryRepository_get_next_id(w)
        f == Factory_create_category(category_id, category_type, name)
    IN  IF ~IsOk(f) THEN Raise(w, f.err)
        ELSE LET a == CategoryRepository_add(w, f.val[1])
             IN  IF ~IsOk(a) THEN a ELSE Ok(a.w, f.val)

get_category(w, category_id) == Ok(w, CategoryRepository_get_by_id(w, category_id))

update_category(w, category_id, name, category_type) ==
    LET category == CategoryRepository_get_by_id(w, category_id)
    IN  IF category = None THEN Raise(w, Error("NotFound", "category", Some(category_id)))
        ELSE LET updated_category == Category(category[1].id, category_type, name)
                 u == CategoryRepository_update(w, updated_category)
             IN  IF ~IsOk(u) THEN u ELSE Ok(u.w, Some(updated_category))

delete_category(w, category_id) == CategoryRepository_delete(w, category_id)

---------------------------------------------------------------------------
(* OperationFacade *)

create_operation_validate_last(w, operation_type, account_id, amount, category_id) ==
    LET g == Proxy_get_by_id(w, account_id)
    IN  IF g.val = None THEN Raise(g.w, Error("NotFound", "account", Some(account_id)))
        ELSE LET account == g.val[1]
                 balance == update_balance(account.balance, amount, operation_type)
                 u == Proxy_update(SetBalance(g.w, account, balance),
                                   [account EXCEPT !.balance = balance])
                 f == Factory_create_operation(OperationRepository_get_next_id(u.w),
                          operation_type, account_id, amount, category_id)
             IN  IF ~IsOk(f) THEN Raise(u.w, f.err)
                 ELSE LET a == OperationRepository_add(u.w, f.val[1])
                      IN  IF ~IsOk(a) THEN a ELSE Ok(a.w, f.val)

create_operation_own_repository(w, operation_type, account_id, amount, category_id) ==
    LET found == BankAccountRepository_get_by_id(w, account_id)
    IN  IF found = None THEN Raise(w, Error("NotFound", "account", Some(account_id)))
        ELSE LET category == IF Truthy(category_id)
                             THEN CategoryRepository_get_by_id(w, category_id[1])
                             ELSE None
             IN  IF Truthy(category_id) /\ category = None
                 THEN Raise(w, Error("NotFound", "category", category_id))
                 ELSE IF Truthy(category_id) /\ category[1].type # operation_type
                 THEN Raise(w, Error("InvalidState", "category type", None))
                 ELSE LET operation_id == OperationRepository_get_next_id(w)
                          f == Factory_create_operation(operation_id, operation_type,
                                                        account_id, amount, category_id)
                      IN  IF ~IsOk(f) THEN Raise(w, f.err)
                          ELSE LET balance == update_balance(found[1].balance, amount,
                                                             operation_type)
                                   u == BankAccountRepository_update(w,
                                            [found[1] EXCEPT !.balance = balance])
                                   a == OperationRepository_add(u.w, f.val[1])
                               IN  IF ~IsOk(a) THEN a ELSE Ok(a.w, f.val)

create_operation(w, operation_type, account_id, amount, category_id) ==
    LET g == Proxy_get_by_id(w, account_id)
    IN  IF g.val = None THEN Raise(g.w, Error("NotFound", "account", Some(account_id)))
        ELSE LET category == IF Truthy(category_id)
                             THEN CategoryRepository_get_by_id(g.w, category_id[1])
                             ELSE None
             IN  IF Truthy(category_id) /\ category = None
                 THEN Raise(g.w, Error("NotFound", "category", category_id))
                 ELSE IF Truthy(category_id) /\ category[1].type # operation_type
                 THEN Raise(g.w, Error("InvalidState", "category type", None))
                 ELSE LET operation_id == OperationRepository_get_next_id(g.w)
                          f == Factory_create_operation(operation_id, operation_type,
                                                        account_id, amount, category_id)
                      IN  IF ~IsOk(f) THEN Raise(g.w, f.err)
                          ELSE LET account == g.val[1]
                                   balance == update_balance(account.balance, amount,
                                                             operation_type)
                                   w1 == SetBalance(g.w, account, balance)
                                   u == Proxy_update(w1, [account EXCEPT !.balance = balance])
                               IN  IF ~IsOk(u) THEN u
                                   ELSE LET a == OperationRepository_add(u.w, f.val[1])
                                        IN  IF ~IsOk(a) THEN a ELSE Ok(a.w, f.val)

get_operation(w, operation_id) == Ok(w, OperationRepository_get_by_id(w, operation_id))

update_operation_reconcile(w, operation_id, operation_type, amount, category_id) ==
    LET operation == OperationRepository_get_by_id(w, operation_id)
    IN  IF operation = None THEN Raise(w, Error("NotFound", "operation", Some(operation_id)))
        ELSE LET updated_operation ==
                     Operation(operation[1].id,
                               IF operation_type # None THEN operation_type[1]
                               ELSE operation[1].type,
                               operation[1].bank_account_id,
                               IF Truthy(amount) THEN amount[1] ELSE operation[1].amount,
                               IF category_id # None THEN category_id
                               ELSE operation[1].category_id)
                 u == OperationRepository_update(w, updated_operation)
                 r == recalculate_balance(u.w, operation[1].bank_account_id)
             IN  Ok(r.w, Some(updated_operation))

update_operation(w, operation_id, operation_type, amount, category_id) ==
    LET operation == OperationRepository_get_by_id(w, operation_id)
    IN  IF operation = None THEN Raise(w, Error("NotFound", "operation", Some(operation_id)))
        ELSE LET updated_operation ==
                     Operation(operation[1].id,
                               IF operation_type # None THEN operation_type[1]
                               ELSE operation[1].type,
                               operation[1].bank_account_id,
                               IF Truthy(amount) THEN amount[1] ELSE operation[1].amount,
                               IF category_id # None THEN category_id
                               ELSE operation[1].category_id)
                 u == OperationRepository_update(w, updated_operation)
             IN  IF ~IsOk(u) THEN u ELSE Ok(u.w, Some(updated_operation))

delete_operation_keep_balance(w, operation_id) ==
    IF OperationRepository_get_by_id(w, operation_id) = None
    THEN Raise(w, Error("NotFound", "operation", Some(operation_id)))
    ELSE OperationRepository_delete(w, operation_id)

delete_operation_require_account(w, operation_id) ==
    LET operation == OperationRepository_get_by_id(w, operation_id)
    IN  IF operation = None THEN Raise(w, Error("NotFound", "operation", Some(operation_id)))
        ELSE LET g == Proxy_get_by_id(w, operation[1].bank_account_id)
             IN  IF g.val = None
                 THEN Raise(g.w, Error("NotFound", "account",
                                       Some(operation[1].bank_account_id)))
                 ELSE LET account == g.val[1]
                          balance == IF operation[1].type = INCOME
                                     THEN account.balance - operation[1].amount
                                     ELSE account.balance + operation[1].amount
                          u == Proxy_update(SetBalance(g.w, account, balance),
                                            [account EXCEPT !.balance = balance])
                      IN  IF ~IsOk(u) THEN u
                          ELSE OperationRepository_delete(u.w, operation_id)

delete_operation(w, operation_id) ==
    LET operation == OperationRepository_get_by_id(w, operation_id)
    IN  IF operation = None THEN Raise(w, Error("NotFound", "operation", Some(operation_id)))
        ELSE LET g == Proxy_get_by_id(w, operation[1].bank_account_id)
                 u == IF g.val # None
                      THEN LET account == g.val[1]
                               balance == IF operation[1].type = INCOME
                                          THEN account.balance - operation[1].amount
                                          ELSE account.balance + operation[1].amount
                           IN  Proxy_update(SetBalance(g.w, account, balance),
                                            [account EXCEPT !.balance = balance])
                      ELSE Ok(g.w, None)
             IN  IF ~IsOk(u) THEN u
                 ELSE OperationRepository_delete(u.w, operation_id)

---------------------------------------------------------------------------
(* _import_data, after the importer has converted the file: the three     *)
(* loops over imported_data.  Each loop body runs under try/except         *)
(* Exception, so a raise ends that record only.  n counts the records      *)
(* imported.                                                               *)

RECURSIVE import_accounts_overwrite(_, _, _)
import_accounts_overwrite(w, recs, n) ==
    IF recs = <<>> THEN [w |-> w, n |-> n]
    ELSE LET account == Head(recs)
             existing_account == get_account(w, account.id)
         IN  IF existing_account.val # None
             THEN import_accounts_overwrite(Proxy_update(existing_account.w, account).w,
                                            Tail(recs), n)
             ELSE LET a == Proxy_add(existing_account.w, account)
                  IN  import_accounts_overwrite(a.w, Tail(recs),
                                                IF IsOk(a) THEN n + 1 ELSE n)

RECURSIVE import_accounts(_, _, _)
import_accounts(w, recs, n) ==
    IF recs = <<>> THEN [w |-> w, n |-> n]
    ELSE LET account == Head(recs)
             existing_account == get_account(w, account.id)
         IN  IF existing_account.val # None
             THEN import_accounts(existing_account.w, Tail(recs), n)
             ELSE LET a == Proxy_add(existing_account.w, account)
                  IN  import_accounts(a.w, Tail(recs), IF IsOk(a) THEN n + 1 ELSE n)

RECURSIVE import_categories(_, _, _)
import_categories(w, recs, n) ==
    IF recs = <<>> THEN [w |-> w, n |-> n]
    ELSE LET category == Head(recs)
             existing_category == get_category(w, category.id)
         IN  IF existing_category.val # None
             THEN import_categories(w, Tail(recs), n)
             ELSE LET a == CategoryRepository_add(w, category)
                  IN  import_categories(a.w, Tail(recs), IF IsOk(a) THEN n + 1 ELSE n)

Skipped == Error("skipped", "", None)

import_operation_store_only(w, operation) ==
    LET existing_operation == get_operation(w, operation.id)
    IN  IF existing_operation.val # None THEN Raise(w, Skipped)
        ELSE LET g == get_account(w, operation.bank_account_id)
             IN  IF g.val = None THEN Raise(g.w, Skipped)
                 ELSE IF Truthy(operation.category_id)
                         /\ get_category(g.w, operation.category_id[1]).val = None
                 THEN Raise(g.w, Skipped)
                 ELSE LET a == OperationRepository_add(g.w, operation)
                      IN  IF ~IsOk(a) THEN a ELSE Proxy_update(a.w, g.val[1])

import_operation_type_checked(w, operation) ==
    LET existing_operation == get_operation(w, operation.id)
    IN  IF existing_operation.val # None THEN Raise(w, Skipped)
        ELSE LET g == get_account(w, operation.bank_account_id)
                 category == IF Truthy(operation.category_id)
                             THEN get_category(g.w, operation.category_id[1]).val
                             ELSE None
             IN  IF g.val = None THEN Raise(g.w, Skipped)
                 ELSE IF Truthy(operation.category_id) /\ category = None
                 THEN Raise(g.w, Skipped)
                 ELSE IF Truthy(operation.category_id) /\ category[1].type # operation.type
                 THEN Raise(g.w, Skipped)
                 ELSE LET a == OperationRepository_add(g.w, operation)
                      IN  IF ~IsOk(a) THEN a
                          ELSE LET account == g.val[1]
                                   balance == update_balance(account.balance,
                                                  operation.amount, operation.type)
                               IN  Proxy_update(SetBalance(a.w, account, balance),
                                                [account EXCEPT !.balance = balance])

import_operation(w, operation) ==
    LET existing_operation == get_operation(w, operation.id)
    IN  IF existing_operation.val # None THEN Raise(w, Skipped)
        ELSE LET g == get_account(w, operation.bank_account_id)
             IN  IF g.val = None THEN Raise(g.w, Skipped)
                 ELSE IF Truthy(operation.category_id)
                         /\ get_category(g.w, operation.category_id[1]).val = None
                 THEN Raise(g.w, Skipped)
                 ELSE LET a == OperationRepository_add(g.w, operation)
                      IN  IF ~IsOk(a) THEN a
                          ELSE LET account == g.val[1]
                                   balance == update_balance(account.balance,
                                                  operation.amount, operation.type)
                               IN  Proxy_update(SetBalance(a.w, account, balance),
                                                [account EXCEPT !.balance = balance])

RECURSIVE import_operations_stop(_, _, _)
import_operations_stop(w, recs, n) ==
    IF recs = <<>> THEN [w |-> w, n |-> n]
    ELSE LET r == import_operation(w, Head(recs))
         IN  IF ~IsOk(r) THEN [w |-> r.w, n |-> n]
             ELSE import_operations_stop(r.w, Tail(recs), n + 1)

RECURSIVE import_operations(_, _, _)
import_operations(w, recs, n) ==
    IF recs = <<>> THEN [w |-> w, n |-> n]
    ELSE LET r == import_operation(w, Head(recs))
         IN  import_operations(r.w, Tail(recs), IF IsOk(r) THEN n + 1 ELSE n)

import_data(w, imported_data) ==
    LET a == import_accounts(w, imported_data.accounts, 0)
        c == import_categories(a.w, imported_data.categories, 0)
        o == import_operations(c.w, imported_data.operations, 0)
    IN  Ok(o.w, Some([accounts |-> a.n, categories |-> c.n, operations |-> o.n]))

---------------------------------------------------------------------------
(* The state machine: one action a call.  result observes the outcome of  *)
(* the calls a specification watches (Do); the calls that only build the  *)
(* ledger up leave no observation (Quiet).                                 *)

InBounds(w) ==
    /\ w.accounts_next_id <= MaxAccounts + 1
    /\ w.categories_next_id <= MaxCategories + 1
    /\ w.operations_next_id <= MaxOperations + 1

Set(w) ==
    /\ accounts' = w.accounts
    /\ accounts_next_id' = w.accounts_next_id
    /\ categories' = w.categories
    /\ categories_next_id' = w.categories_next_id
    /\ operations' = w.operations
    /\ operations_next_id' = w.operations_next_id
    /\ cache' = w.cache
    /\ all_cache' = w.all_cache

Step(w) == InBounds(w) /\ Set(w)

NoResult == [op |-> "", arg |-> None, err |-> NoError, val |-> None]

(* a watched call: its name, the id it was given (None when it takes none), *)
(* the error it raised and the value it returned                            *)
Observe(op, arg, r, p) ==
    result' = [op |-> op, arg |-> arg, err |-> r.err, val |-> r.val] /\ pc' = p

DoAt(op, arg, r, p) == Step(r.w) /\ Observe(op, arg, r, p)

Do(op, arg, r) == DoAt(op, arg, r, 0)

Quiet(r) == Step(r.w) /\ result' = NoResult /\ pc' = 0

Init ==
    /\ accounts = <<>> /\ accounts_next_id = 1
    /\ categories = <<>> /\ categories_next_id = 1
    /\ operations = <<>> /\ operations_next_id = 1
    /\ cache = {} /\ all_cache = None
    /\ result = NoResult
    /\ pc = 0

---------------------------------------------------------------------------
(* SpecBalance: accounts opened through create_account, operations        *)
(* created and deleted through the operation facade.                       *)

NextBalance ==
    \/ \E name \in Names, b \in OpeningBalances : Quiet(create_account(W, name, b))
    \/ \E t \in OperationType, a \in AccountIds, m \in Amounts :
          Quiet(create_operation(W, t, a, m, None))
    \/ \E id \in OperationIds : Quiet(delete_operation(W, id))

SpecBalance == Init /\ [][NextBalance]_vars

(* C1: the incrementally maintained balance of every account equals what  *)
(* recalculate_balance computes from the stored operations.                *)
BalanceDerivation ==
    \A i \in 1 .. Len(accounts) :
        recalculate_balance(W, accounts[i].id).val = Some(accounts[i].balance)

BalanceDerivationWitness ==
    /\ Len(accounts) >= 1
    /\ Len(operations) >= 1
    /\ operations_next_id > Len(operations) + 1
    /\ \E i \in 1 .. Len(operations) : operations[i].type = EXPENSE
    /\ accounts[1].balance # 0

---------------------------------------------------------------------------
(* SpecProxy: a client that calls the caching proxy only.  pc follows the  *)
(* calls: 1 after a get_all, 2 once an add, update or delete has succeeded *)
(* after it, 3 when a get_by_id comes next.                                *)

ProxyAccounts == {BankAccount(i, Main, b) : i \in 1 .. MaxAccounts, b \in {0, 1}}

AfterMutation(r) == IF ~IsOk(r) THEN pc ELSE IF pc \in {1, 2} THEN 2 ELSE 0

ProxyGetById(id) ==
    DoAt("get_by_id", Some(id), Proxy_get_by_id(W, id),
         IF pc = 2 THEN 3 ELSE IF pc = 1 THEN 1 ELSE 0)
ProxyGetAll == DoAt("get_all", None, Proxy_get_all(W), 1)
ProxyAdd(account) ==
    LET r == Proxy_add(W, account) IN DoAt("add", Some(account.id), r, AfterMutation(r))
ProxyUpdate(account) ==
    LET r == Proxy_update(W, account) IN DoAt("update", Some(account.id), r, AfterMutation(r))
ProxyDelete(id) ==
    LET r == Proxy_delete(W, id) IN DoAt("delete", Some(id), r, AfterMutation(r))

NextProxy ==
    \/ \E id \in AccountIds : ProxyGetById(id)
    \/ ProxyGetAll
    \/ \E account \in ProxyAccounts : ProxyAdd(account)
    \/ \E account \in ProxyAccounts : ProxyUpdate(account)
    \/ \E id \in AccountIds : ProxyDelete(id)

SpecProxy == Init /\ [][NextProxy]_vars

(* C2: what the proxy answers to get_by_id and to get_all is what the      *)
(* wrapped repository answers at that moment.                              *)
ProxyAnswersAsStore ==
    /\ result.op = "get_by_id" =>
           result.val = BankAccountRepository_get_by_id(W, result.arg[1])
    /\ result.op = "get_all" => result.val = BankAccountRepository_get_all(W)

ProxyAnswersAsStoreWitness ==
    /\ pc = 3
    /\ result.op = "get_by_id"
    /\ result.val # None
    /\ result.val[1].balance = 1

---------------------------------------------------------------------------
(* SpecCreateOperation: accounts and categories are created through the    *)
(* facades, a category may also arrive by import under an id of the file's *)
(* choosing, and create_operation is called with every argument.           *)

CategoryFiles ==
    {[accounts |-> <<>>, categories |-> <<Category(0, EXPENSE, Main)>>,
      operations |-> <<>>]}

CreateOperation(t, a, m, c) == Do("create_operation", None, create_operation(W, t, a, m, c))

NextCreateOperation ==
    \/ Quiet(create_account(W, Main, 0))
    \/ \E t \in OperationType : Quiet(create_category(W, Main, t))
    \/ \E f \in CategoryFiles : Quiet(import_data(W, f))
    \/ \E t \in OperationType, a \in AccountIds, m \in CreateAmounts,
          c \in Optional(CategoryIds) : CreateOperation(t, a, m, c)

SpecCreateOperation == Init /\ [][NextCreateOperation]_vars

(* C3: a create_operation that raises leaves the operation store and its   *)
(* next-id hint, every account and the category store as they were.        *)
FailedCreateChangesNothing ==
    [][(result'.op = "create_operation" /\ ~IsOk(result')) => UNCHANGED stores]_vars

FailedCreateChangesNothingWitness ==
    /\ result.op = "create_operation"
    /\ result.err = Error("InvalidState", "category type", None)
    /\ cache # {}
    /\ Len(operations) >= 1

(* C4: create_operation with an account id that is not stored, or with a   *)
(* category id that is not stored, raises NotFound.                        *)
MissingReferenceIsNotFound ==
    [][\A t \in OperationType, a \in AccountIds, m \in CreateAmounts,
         c \in Optional(CategoryIds) :
           (/\ \/ ~DictHas(accounts, a)
               \/ c # None /\ ~DictHas(categories, c[1])
            /\ CreateOperation(t, a, m, c))
           => result'.err.kind = "NotFound"]_vars

(* C5: create_operation with a stored account and a stored category of the *)
(* other type raises InvalidState.                                         *)
MismatchIsInvalidState ==
    [][\A t \in OperationType, a \in AccountIds, m \in CreateAmounts,
         c \in Optional(CategoryIds) :
           (/\ DictHas(accounts, a)
            /\ c # None /\ DictHas(categories, c[1])
            /\ DictGet(categories, c[1])[1].type # t
            /\ CreateOperation(t, a, m, c))
           => result'.err.kind = "InvalidState"]_vars

---------------------------------------------------------------------------
(* Spec: every mutating call of the three facades; delete_account is       *)
(* watched.                                                                *)

DeleteAccount(id) == Do("delete_account", Some(id), delete_account(W, id))

Next ==
    \/ Quiet(create_account(W, Main, 0))
    \/ \E id \in AccountIds : Quiet(update_account(W, id, Main))
    \/ \E id \in AccountIds : DeleteAccount(id)
    \/ \E t \in OperationType : Quiet(create_category(W, Main, t))
    \/ \E id \in CategoryIds, t \in OperationType : Quiet(update_category(W, id, Main, t))
    \/ \E id \in CategoryIds : Quiet(delete_category(W, id))
    \/ \E t \in OperationType, a \in AccountIds, c \in Optional({1}) :
          Quiet(create_operation(W, t, a, 1, c))
    \/ \E id \in OperationIds, t \in Optional(OperationType), c \in Optional({1}) :
          Quiet(update_operation(W, id, t, None, c))
    \/ \E id \in OperationIds : Quiet(delete_operation(W, id))

Spec == Init /\ [][Next]_vars

(* C6: delete_account on an account that a stored operation references     *)
(* raises InvalidState, and the account store and the operation store are  *)
(* afterwards what they were.                                              *)
DeleteRefused ==
    [][\A id \in AccountIds :
           (get_by_account_id(W, id) # <<>> /\ DeleteAccount(id))
           => /\ result'.err.kind = "InvalidState"
              /\ accounts' = accounts
              /\ operations' = operations]_vars

DeleteRefusedWitness ==
    /\ result.op = "delete_account"
    /\ result.err.kind = "InvalidState"
    /\ DictHas(accounts, result.arg[1])
    /\ get_by_account_id(W, result.arg[1]) # <<>>

(* C9: the bank_account_id of every stored operation is the id of a stored *)
(* account.                                                                *)
OperationsHaveAccounts ==
    \A i \in 1 .. Len(operations) : DictHas(accounts, operations[i].bank_account_id)

OperationsHaveAccountsWitness ==
    /\ Len(operations) >= 1
    /\ Len(accounts) >= 1
    /\ accounts_next_id > Len(accounts) + 1
    /\ result.op = "delete_account"
    /\ IsOk(result)

(* C10: every stored operation that carries a category_id refers to a      *)
(* stored category of the operation's own type.                            *)
OperationsHaveCategories ==
    \A i \in 1 .. Len(operations) :
        operations[i].category_id # None =>
            LET category == CategoryRepository_get_by_id(W, operations[i].category_id[1])
            IN  category # None /\ category[1].type = operations[i].type

---------------------------------------------------------------------------
(* SpecRecalc: balances drift from the stored operations when an operation *)
(* is edited, and recalculate_balance is called at any moment.  pc counts  *)
(* the successful recalculate_balance calls made in a row on one account,  *)
(* up to 2.                                                                *)

RecalculateBalance(id) ==
    LET r == recalculate_balance(W, id)
    IN  DoAt("recalculate_balance", Some(id), r,
             IF ~IsOk(r) THEN 0
             ELSE IF pc >= 1 /\ result.op = "recalculate_balance" /\ result.arg = Some(id)
             THEN 2 ELSE 1)

NextRecalc ==
    \/ \E b \in {0, 1} : Quiet(create_account(W, Main, b))
    \/ \E t \in OperationType, a \in AccountIds : Quiet(create_operation(W, t, a, 1, None))
    \/ \E id \in OperationIds, t \in Optional(OperationType), m \in Optional({2}) :
          Quiet(update_operation(W, id, t, m, None))
    \/ \E id \in OperationIds : Quiet(delete_operation(W, id))
    \/ \E id \in AccountIds : RecalculateBalance(id)

SpecRecalc == Init /\ [][NextRecalc]_vars

(* C8: a recalculate_balance that directly follows a recalculate_balance   *)
(* of the same account returns the value the first returned and leaves the *)
(* stored accounts as the first left them.                                 *)
RecalculateIdempotent ==
    [][pc' = 2 => (result'.val = result.val /\ accounts' = accounts)]_vars

RecalculateIdempotentWitness ==
    /\ pc = 2
    /\ result.val \notin {None, Some(0)}
    /\ Len(operations) >= 2
    /\ \E i \in 1 .. Len(operations) : operations[i].amount = 2

---------------------------------------------------------------------------
(* SpecScenario: one account is opened on a fresh ledger, an income and an *)
(* expense are recorded on it, and the expense is deleted.  The script is   *)
(* four calls long, so no bound on the stores is needed.  pc is the       *)
(* number of calls made; result.arg is the amount given to the call, and   *)
(* for delete_operation the id.                                            *)

ScenarioAmounts == {250, 500, 1000, 2000}

ScenarioCall(op, arg, r, p) == pc = p - 1 /\ Set(r.w) /\ Observe(op, arg, r, p)

ScenarioOpen(b) == ScenarioCall("create_account", Some(b), create_account(W, Main, b), 1)
ScenarioIncome(m) ==
    ScenarioCall("create_operation", Some(m), create_operation(W, INCOME, 1, m, None), 2)
ScenarioExpense(m) ==
    ScenarioCall("create_operation", Some(m), create_operation(W, EXPENSE, 1, m, None), 3)
ScenarioDelete ==
    /\ result.val # None
    /\ ScenarioCall("delete_operation", Some(result.val[1].id),
                    delete_operation(W, result.val[1].id), 4)

NextScenario ==
    \/ \E b \in ScenarioAmounts \cup {0} : ScenarioOpen(b)
    \/ \E m \in ScenarioAmounts : ScenarioIncome(m)
    \/ \E m \in ScenarioAmounts : ScenarioExpense(m)
    \/ ScenarioDelete

SpecScenario == Init /\ [][NextScenario]_vars

(* C7: on a fresh ledger create_account("Main", 1000) gives balance 1000    *)
(* and one stored Income operation of 1000; an Income of 2000 then makes    *)
(* the balance 3000, an Expense of 500 makes it 2500, and deleting that     *)
(* expense makes it 3000 again.                                             *)
ScenarioBalances ==
    [][LET Opening1000 == <<Operation(1, INCOME, 1, 1000, None)>>
           Income2000 == Append(Opening1000, Operation(2, INCOME, 1, 2000, None))
           Expense500 == Append(Income2000, Operation(3, EXPENSE, 1, 500, None))
       IN  /\ ScenarioOpen(1000) =>
                  accounts' = <<BankAccount(1, Main, 1000)>> /\ operations' = Opening1000
           /\ (operations = Opening1000 /\ ScenarioIncome(2000)) =>
                  accounts' = <<BankAccount(1, Main, 3000)>> /\ operations' = Income2000
           /\ (operations = Income2000 /\ ScenarioExpense(500)) =>
                  accounts' = <<BankAccount(1, Main, 2500)>> /\ operations' = Expense500
           /\ (operations = Expense500 /\ ScenarioDelete) =>
                  accounts' = <<BankAccount(1, Main, 3000)>> /\ operations' = Income2000]_vars

ScenarioBalancesWitness ==
    /\ pc = 4
    /\ result.op = "delete_operation" /\ result.arg = Some(3) /\ IsOk(result)
    /\ operations = <<Operation(1, INCOME, 1, 1000, None), Operation(2, INCOME, 1, 2000, None)>>
    /\ accounts = <<BankAccount(1, Main, 3000)>>

---------------------------------------------------------------------------
(* SpecOperations: operations are created, edited with any amount and      *)
(* deleted on up to MaxAccounts accounts; delete_operation is watched.     *)

DeleteOperation(id) == Do("delete_operation", Some(id), delete_operation(W, id))

NextOperations ==
    \/ \E b \in {0, 1} : Quiet(create_account(W, Main, b))
    \/ \E t \in OperationType, a \in AccountIds : Quiet(create_operation(W, t, a, 1, None))
    \/ \E id \in OperationIds, m \in Optional(CreateAmounts) :
          Quiet(update_operation(W, id, None, m, None))
    \/ \E id \in OperationIds : DeleteOperation(id)

SpecOperations == Init /\ [][NextOperations]_vars

(* C11: every stored operation has an amount greater than zero.            *)
PositiveAmounts == \A i \in 1 .. Len(operations) : operations[i].amount > 0

(* C20: delete_operation of a stored operation whose account is stored     *)
(* moves that account's balance by the opposite of the operation's stored  *)
(* type and amount, removes that operation and nothing else; of an id that *)
(* is not stored it raises NotFound and changes nothing.                   *)
DeleteReversesEffect ==
    [][\A id \in OperationIds : DeleteOperation(id) =>
          LET operation == DictGet(operations, id)
          IN  IF operation = None
              THEN result'.err.kind = "NotFound" /\ UNCHANGED stores
              ELSE DictHas(accounts, operation[1].bank_account_id) =>
                     /\ IsOk(result')
                     /\ operations' = SelectSeq(operations, LAMBDA o : o # operation[1])
                     /\ accounts' =
                          [i \in 1 .. Len(accounts) |->
                             IF accounts[i].id # operation[1].bank_account_id
                             THEN accounts[i]
                             ELSE [accounts[i] EXCEPT !.balance =
                                      IF operation[1].type = INCOME
                                      THEN @ - operation[1].amount
                                      ELSE @ + operation[1].amount]]
                     /\ UNCHANGED <<accounts_next_id, operations_next_id,
                                    categories, categories_next_id>>]_vars

DeleteReversesEffectWitness ==
    /\ result.op = "delete_operation" /\ IsOk(result)
    /\ Len(accounts) = 2 /\ Len(operations) = 1
    /\ operations[1].id = 2 /\ operations[1].amount = 1
    /\ accounts[1].balance # accounts[2].balance

---------------------------------------------------------------------------
(* SpecStores: a client that calls the three repositories directly, with   *)
(* entities under any id from 1 up to the store's bound.                   *)

StoreCategories == {Category(i, t, Main) : i \in 1 .. MaxCategories, t \in OperationType}
StoreOperations ==
    {Operation(i, INCOME, 1, m, None) : i \in 1 .. MaxOperations, m \in {1, 2}}

AccountAdd(e) == Do("BankAccountRepository.add", Some(e.id), BankAccountRepository_add(W, e))
AccountUpdate(e) ==
    Do("BankAccountRepository.update", Some(e.id), BankAccountRepository_update(W, e))
AccountDelete(id) ==
    Do("BankAccountRepository.delete", Some(id), BankAccountRepository_delete(W, id))
CategoryAdd(e) == Do("CategoryRepository.add", Some(e.id), CategoryRepository_add(W, e))
CategoryUpdate(e) ==
    Do("CategoryRepository.update", Some(e.id), CategoryRepository_update(W, e))
CategoryDelete(id) ==
    Do("CategoryRepository.delete", Some(id), CategoryRepository_delete(W, id))
OperationAdd(e) == Do("OperationRepository.add", Some(e.id), OperationRepository_add(W, e))
OperationUpdate(e) ==
    Do("OperationRepository.update", Some(e.id), OperationRepository_update(W, e))
OperationDelete(id) ==
    Do("OperationRepository.delete", Some(id), OperationRepository_delete(W, id))

NextStores ==
    \/ \E e \in ProxyAccounts : AccountAdd(e)
    \/ \E e \in ProxyAccounts : AccountUpdate(e)
    \/ \E id \in AccountIds : AccountDelete(id)
    \/ \E e \in StoreCategories : CategoryAdd(e)
    \/ \E e \in StoreCategories : CategoryUpdate(e)
    \/ \E id \in CategoryIds : CategoryDelete(id)
    \/ \E e \in StoreOperations : OperationAdd(e)
    \/ \E e \in StoreOperations : OperationUpdate(e)
    \/ \E id \in OperationIds : OperationDelete(id)

SpecStores == Init /\ [][NextStores]_vars

UniqueIds(d) == \A i, j \in 1 .. Len(d) : d[i].id = d[j].id => i = j
HintAbove(d, next_id) == \A i \in 1 .. Len(d) : next_id >= d[i].id + 1

(* C12: in each store no two entities share an id and the next-id hint is  *)
(* at least every stored id plus one, so the hint is not a stored id.      *)
StoreIdsUnique ==
    /\ UniqueIds(accounts) /\ HintAbove(accounts, accounts_next_id)
    /\ ~DictHas(accounts, BankAccountRepository_get_next_id(W))
    /\ UniqueIds(categories) /\ HintAbove(categories, categories_next_id)
    /\ ~DictHas(categories, CategoryRepository_get_next_id(W))
    /\ UniqueIds(operations) /\ HintAbove(operations, operations_next_id)
    /\ ~DictHas(operations, OperationRepository_get_next_id(W))

StoreIdsUniqueWitness ==
    /\ Len(accounts) = 1 /\ accounts[1].id = 1 /\ accounts_next_id = MaxAccounts + 1
    /\ Len(operations) = MaxOperations /\ operations[1].id = MaxOperations
    /\ result.err.kind = "DuplicateKey"

(* C13: add of an entity whose id is stored raises DuplicateKey and leaves *)
(* the store and its hint as they were; add of an entity whose id is not   *)
(* stored stores it and makes the hint max(hint, id + 1).                  *)
AddContract ==
    [][/\ \A e \in ProxyAccounts : AccountAdd(e) =>
            IF DictHas(accounts, e.id)
            THEN result'.err.kind = "DuplicateKey" /\ UNCHANGED stores
            ELSE /\ IsOk(result')
                 /\ accounts' = Append(accounts, e)
                 /\ accounts_next_id' = Max(accounts_next_id, e.id + 1)
       /\ \A e \in StoreCategories : CategoryAdd(e) =>
            IF DictHas(categories, e.id)
            THEN result'.err.kind = "DuplicateKey" /\ UNCHANGED stores
            ELSE /\ IsOk(result')
                 /\ categories' = Append(categories, e)
                 /\ categories_next_id' = Max(categories_next_id, e.id + 1)
       /\ \A e \in StoreOperations : OperationAdd(e) =>
            IF DictHas(operations, e.id)
            THEN result'.err.kind = "DuplicateKey" /\ UNCHANGED stores
            ELSE /\ IsOk(result')
                 /\ operations' = Append(operations, e)
                 /\ operations_next_id' = Max(operations_next_id, e.id + 1)]_vars

AddContractWitness ==
    /\ result.op = "OperationRepository.add"
    /\ result.err.kind = "DuplicateKey"
    /\ Len(operations) = 1 /\ operations[1].id = 1
    /\ operations_next_id = MaxOperations + 1

(* C14: update and delete of an id that is not stored raise NotFound and   *)
(* leave the store and its hint as they were; update of a stored id        *)
(* replaces that entity only; delete of a stored id removes that entity    *)
(* only and leaves the hint as it was.                                     *)
UpdateDeleteContract ==
    [][/\ \A e \in ProxyAccounts : AccountUpdate(e) =>
            IF ~DictHas(accounts, e.id)
            THEN result'.err.kind = "NotFound" /\ UNCHANGED stores
            ELSE /\ IsOk(result')
                 /\ accounts' = [i \in 1 .. Len(accounts) |->
                                   IF accounts[i].id = e.id THEN e ELSE accounts[i]]
                 /\ UNCHANGED accounts_next_id
       /\ \A id \in AccountIds : AccountDelete(id) =>
            IF ~DictHas(accounts, id)
            THEN result'.err.kind = "NotFound" /\ UNCHANGED stores
            ELSE /\ IsOk(result')
                 /\ accounts' = SelectSeq(accounts, LAMBDA a : a.id # id)
                 /\ UNCHANGED accounts_next_id
       /\ \A e \in StoreOperations : OperationUpdate(e) =>
            IF ~DictHas(operations, e.id)
            THEN result'.err.kind = "NotFound" /\ UNCHANGED stores
            ELSE /\ IsOk(result')
                 /\ operations' = [i \in 1 .. Len(operations) |->
                                     IF operations[i].id = e.id THEN e ELSE operations[i]]
                 /\ UNCHANGED operations_next_id
       /\ \A id \in OperationIds : OperationDelete(id) =>
            IF ~DictHas(operations, id)
            THEN result'.err.kind = "NotFound" /\ UNCHANGED stores
            ELSE /\ IsOk(result')
                 /\ operations' = SelectSeq(operations, LAMBDA o : o.id # id)
                 /\ UNCHANGED operations_next_id]_vars

UpdateDeleteContractWitness ==
    /\ result.op = "BankAccountRepository.update"
    /\ result.err.kind = "NotFound"
    /\ Len(accounts) = 1
    /\ accounts_next_id > accounts[1].id + 1

---------------------------------------------------------------------------
(* The proxy's two caches, under SpecProxy.                                *)

Range(f) == {f[i] : i \in 1 .. Len(f)}

(* C15: whenever the all-accounts snapshot is present, the id-keyed cache  *)
(* holds exactly the accounts of the snapshot, and these are the accounts  *)
(* the wrapped repository holds.                                           *)
CacheCoherent ==
    all_cache # None =>
        /\ cache = Range(all_cache[1])
        /\ Range(all_cache[1]) = Range(BankAccountRepository_get_all(W))
        /\ Len(all_cache[1]) = Len(accounts)

CacheCoherentWitness ==
    /\ all_cache # None
    /\ Len(accounts) = MaxAccounts
    /\ result.op = "add" /\ result.err.kind = "DuplicateKey"

(* C16: after every add, update or delete on the proxy, whether it         *)
(* returned or raised, the id-keyed cache is empty and the snapshot is     *)
(* absent.                                                                 *)
MutationClearsCaches ==
    [][result'.op \in {"add", "update", "delete"} => cache' = {} /\ all_cache' = None]_vars

---------------------------------------------------------------------------
(* SpecProxyAbsent: a client of the proxy that also asks for the next-id   *)
(* hint.  pc follows one pattern: 1 after a get_by_id that returned None,  *)
(* 2 once an account with that id has been added next, 3 when get_by_id of *)
(* that id comes next.                                                     *)

AbsentGetById(id) ==
    LET r == Proxy_get_by_id(W, id)
    IN  DoAt("get_by_id", Some(id), r,
             IF pc = 2 /\ result.arg = Some(id) THEN 3
             ELSE IF r.val = None THEN 1 ELSE 0)
AbsentAdd(account) ==
    LET r == Proxy_add(W, account)
    IN  DoAt("add", Some(account.id), r,
             IF IsOk(r) /\ pc = 1 /\ result.arg = Some(account.id) THEN 2 ELSE 0)
AbsentGetAll == Do("get_all", None, Proxy_get_all(W))
AbsentDelete(id) == Do("delete", Some(id), Proxy_delete(W, id))
AbsentGetNextId ==
    Do("get_next_id", None, Ok(W, Some([next_id |-> Proxy_get_next_id(W)])))

NextProxyAbsent ==
    \/ \E id \in AccountIds : AbsentGetById(id)
    \/ \E account \in ProxyAccounts : AbsentAdd(account)
    \/ AbsentGetAll
    \/ \E id \in AccountIds : AbsentDelete(id)
    \/ AbsentGetNextId

SpecProxyAbsent == Init /\ [][NextProxyAbsent]_vars

(* C17: a get_by_id that follows the add of an account whose id a          *)
(* get_by_id had just found absent returns the added account; and          *)
(* get_next_id through the proxy returns the wrapped repository's hint.    *)
AbsentNotCached ==
    [][/\ pc' = 3 =>
            /\ result'.val # None
            /\ result'.val = BankAccountRepository_get_by_id(W, result.arg[1])
       /\ result'.op = "get_next_id" => result'.val = Some([next_id |-> accounts_next_id'])]_vars

AbsentNotCachedWitness ==
    /\ pc = 3
    /\ result.op = "get_by_id" /\ result.val # None
    /\ result.val[1].id = 1
    /\ accounts_next_id = MaxAccounts + 1

---------------------------------------------------------------------------
(* SpecCreateAccount: create_account is called with every name and opening *)
(* balance, on a ledger where operations are recorded and deleted,         *)
(* accounts are deleted and the account list is read through the proxy.    *)

CreateNames == Names \cup {<<>>, <<" ", " ">>}

CreateAccount(name, b) == Do("create_account", None, create_account(W, name, b))

(* what a reader of the proxy is given: the list and each account by id *)
ProxyVisible ==
    [all |-> Proxy_get_all(W).val,
     by_id |-> [id \in AccountIds |-> Proxy_get_by_id(W, id).val]]

NextCreateAccount ==
    \/ \E name \in CreateNames, b \in OpeningBalances : CreateAccount(name, b)
    \/ \E t \in OperationType, a \in AccountIds : Quiet(create_operation(W, t, a, 1, None))
    \/ \E id \in OperationIds : Quiet(delete_operation(W, id))
    \/ \E id \in AccountIds : Quiet(delete_account(W, id))
    \/ Quiet(get_all_accounts(W))

SpecCreateAccount == Init /\ [][NextCreateAccount]_vars

(* C18: create_account with a name that is not blank and an opening        *)
(* balance b >= 0 stores the account with balance b; when b > 0 it adds    *)
(* one Income operation of amount b on the new account, without category,  *)
(* and when b = 0 no operation; the signed sum of the new account's        *)
(* operations is b.                                                        *)
CreateAccountOpening ==
    [][\A name \in CreateNames, b \in OpeningBalances :
          (strip(name) # <<>> /\ b >= 0 /\ CreateAccount(name, b)) =>
             LET id == accounts_next_id
                 account == BankAccount(id, name, b)
             IN  /\ result'.val = Some(account)
                 /\ accounts' = Append(accounts, account)
                 /\ operations' = IF b > 0
                                  THEN Append(operations,
                                              Operation(operations_next_id, INCOME, id, b, None))
                                  ELSE operations
                 /\ SignedSum(SelectSeq(operations', LAMBDA o : o.bank_account_id = id), 0) = b
                 /\ UNCHANGED <<categories, categories_next_id>>]_vars

CreateAccountOpeningWitness ==
    /\ result.op = "create_account" /\ IsOk(result)
    /\ result.val[1].id = 2 /\ result.val[1].balance = 1
    /\ Len(accounts) = 1
    /\ Len(operations) = 1 /\ operations[1] = Operation(2, INCOME, 2, 1, None)

(* C19: create_account with a blank name or a negative opening balance     *)
(* raises ValidationFailed; the stores and their next-id hints, and what   *)
(* the proxy shows of the accounts, are as before.                         *)
InvalidAccountRejected ==
    [][\A name \in CreateNames, b \in OpeningBalances :
          ((strip(name) = <<>> \/ b < 0) /\ CreateAccount(name, b)) =>
             /\ result'.err.kind = "ValidationFailed"
             /\ UNCHANGED stores
             /\ ProxyVisible' = ProxyVisible]_vars

InvalidAccountRejectedWitness ==
    /\ result.op = "create_account"
    /\ result.err = Error("ValidationFailed", "account name", None)
    /\ all_cache # None
    /\ Len(accounts) >= 1 /\ Len(operations) >= 1

---------------------------------------------------------------------------
(* SpecUpdateOperation: update_operation is called with every combination  *)
(* of supplied and omitted fields on operations recorded through the       *)
(* facade.                                                                 *)

(* the observation keeps the arguments of the call *)
UpdateOperation(id, t, m, c) ==
    Do("update_operation",
       Some([operation_id |-> id, operation_type |-> t, amount |-> m, category_id |-> c]),
       update_operation(W, id, t, m, c))

NextUpdateOperation ==
    \/ Quiet(create_account(W, Main, 0))
    \/ \E a \in 1 .. MaxAccounts : Quiet(create_operation(W, INCOME, a, 1, None))
    \/ \E id \in 1 .. MaxOperations, t \in Optional(OperationType), m \in Optional({0, 2}),
          c \in Optional({1}) : UpdateOperation(id, t, m, c)

SpecUpdateOperation == Init /\ [][NextUpdateOperation]_vars

RecalculateContract ==
    [][result'.op = "recalculate_balance" =>
          LET id == result'.arg[1]
              ops == SelectSeq(operations, LAMBDA o : o.bank_account_id = id)
              new_balance == Total(ops, INCOME) - Total(ops, EXPENSE)
          IN  IF DictHas(accounts, id)
              THEN /\ result'.err = NoError
                   /\ result'.val = Some(new_balance)
                   /\ accounts' = [i \in 1 .. Len(accounts) |->
                                     IF accounts[i].id = id
                                     THEN [accounts[i] EXCEPT !.balance = new_balance]
                                     ELSE accounts[i]]
                   /\ UNCHANGED <<accounts_next_id, operations, operations_next_id,
                                  categories, categories_next_id>>
              ELSE /\ result'.err = Error("NotFound", "account", Some(id))
                   /\ UNCHANGED <<stores, cache, all_cache>>]_vars

(* a drifted balance is overwritten while a second account is stored *)
RecalculateContractWitness ==
    /\ result.op = "recalculate_balance" /\ IsOk(result)
    /\ result.val = Some(-2)
    /\ Len(accounts) = 2
    /\ \E i \in 1 .. 2 : accounts[i].id # result.arg[1] /\ accounts[i].balance = 1

---------------------------------------------------------------------------
(* SpecImport: a ledger is built through the facades and a converted file  *)
(* is then imported into it.  The records of a file carry ids that may or  *)
(* may not be stored already, repeat ids within the file, and refer to     *)
(* accounts and categories that are stored, come earlier in the file, or   *)
(* are nowhere.  pc is 1 once the import has run.                          *)

SeqsUpTo(S, n) == UNION {[1 .. k -> S] : k \in 0 .. n}

Other == <<"O">>

(* one record for each id and a second, different one for id 1 *)
ImportedAccounts ==
    {BankAccount(id, Other, 5) : id \in 1 .. MaxAccounts} \cup {BankAccount(1, Other, 7)}

ImportedCategories ==
    {Category(id, t, Other) : id \in 1 .. MaxCategories, t \in OperationType}

ImportedOperations ==
    {Operation(id, t, a, 3, c) : id \in 1 .. MaxOperations, t \in OperationType,
                                 a \in 1 .. MaxAccounts, c \in Optional(CategoryIds)}

ImportFiles ==
    [accounts : SeqsUpTo(ImportedAccounts, MaxAccounts),
     categories : SeqsUpTo(ImportedCategories, MaxCategories),
     operations : SeqsUpTo(ImportedOperations, MaxOperations)]

(* the observation keeps the converted file and the three counts *)
ImportData(imported_data) ==
    DoAt("import_data", Some(imported_data), import_data(W, imported_data), 1)

NextImport ==
    \/ pc = 0 /\ Quiet(create_account(W, Main, 0))
    \/ pc = 0 /\ Quiet(create_category(W, Main, INCOME))
    \/ pc = 0 /\ \E a \in 1 .. MaxAccounts : Quiet(create_operation(W, EXPENSE, a, 1, None))
    \/ pc = 0 /\ Quiet(get_all_accounts(W))
    \/ pc = 0 /\ \E imported_data \in ImportFiles : ImportData(imported_data)

SpecImport == Init /\ [][NextImport]_vars

(* the operations an import added, in the order it added them *)
Added(before, after) == SelectSeq(after, LAMBDA e : ~DictHas(before, e.id))

(* the effect of the operations ops on the balance of account id *)
Effect(ops, id, balance) ==
    SignedSum(SelectSeq(ops, LAMBDA o : o.bank_account_id = id), balance)

(* the first record of recs with the id of e comes at this index *)
First(recs, id) == CHOOSE i \in 1 .. Len(recs) :
                      recs[i].id = id /\ \A j \in 1 .. i - 1 : recs[j].id # id

(* C23: an import leaves every stored category and operation as it was and *)
(* every stored account as it was but for the effect of the operations the *)
(* import added, also when the file holds a record with the same id; the   *)
(* records it adds are, per kind, the first record of the file with each   *)
(* new id, in the order of the file; and an operation of the file that     *)
(* refers to an account or a category that only the file brings is added,  *)
(* so accounts and categories are applied before operations.               *)
ImportSkipsDuplicates ==
    [][result'.op = "import_data" =>
          LET file == result'.arg[1]
              ops == Added(operations, operations')
              n == Len(accounts)
          IN  /\ Len(accounts') >= n
              /\ \A i \in 1 .. n :
                    accounts'[i] = [accounts[i] EXCEPT
                                       !.balance = Effect(ops, accounts[i].id, @)]
              /\ \A i \in n + 1 .. Len(accounts') :
                    LET id == accounts'[i].id
                    IN  /\ \E k \in 1 .. Len(file.accounts) : file.accounts[k].id = id
                        /\ accounts'[i] =
                              [file.accounts[First(file.accounts, id)] EXCEPT
                                  !.balance = Effect(ops, id, @)]
                        /\ \A j \in n + 1 .. i - 1 :
                              First(file.accounts, accounts'[j].id) < First(file.accounts, id)
              /\ SubSeq(categories', 1, Len(categories)) = categories
              /\ \A i \in Len(categories) + 1 .. Len(categories') :
                    /\ \E k \in 1 .. Len(file.categories) :
                          file.categories[k].id = categories'[i].id
                    /\ categories'[i] =
                          file.categories[First(file.categories, categories'[i].id)]
              /\ SubSeq(operations', 1, Len(operations)) = operations
              /\ \A i \in 1 .. Len(ops) :
                    /\ \E k \in 1 .. Len(file.operations) : file.operations[k].id = ops[i].id
                    /\ \A j \in 1 .. i - 1 :
                          First(file.operations, ops[j].id) < First(file.operations, ops[i].id)
              /\ \A k \in 1 .. Len(file.operations) :
                    LET o == file.operations[k]
                    IN  (/\ ~DictHas(operations, o.id)
                         /\ First(file.operations, o.id) = k
                         /\ \E a \in 1 .. Len(file.accounts) :
                               file.accounts[a].id = o.bank_account_id
                         /\ o.category_id # None
                         /\ \E c \in 1 .. Len(file.categories) :
                               file.categories[c].id = o.category_id[1])
                        => DictGet(operations', o.id) = Some(o)]_vars

(* the file repeats the id of a stored account and of a stored operation,  *)
(* and brings a category together with an operation that refers to it      *)
ImportSkipsDuplicatesWitness ==
    /\ pc = 1
    /\ accounts = <<BankAccount(1, Main, 2)>>
    /\ result.arg[1].accounts = <<BankAccount(1, Other, 5), BankAccount(1, Other, 7)>>
    /\ categories = <<Category(1, INCOME, Other)>>
    /\ operations = <<Operation(1, EXPENSE, 1, 1, None), Operation(2, INCOME, 1, 3, Some(1))>>
    /\ Len(result.arg[1].operations) = 2
    /\ result.arg[1].operations[1].id = 1
    /\ result.val = Some([accounts |-> 0, categories |-> 1, operations |-> 1])

(* C24: every operation an import adds refers to an account that is stored *)
(* when the import ends and, when its category_id is not null, to a        *)
(* category that is stored then; an account that no added operation refers *)
(* to keeps its balance; and an operation of the file whose account and    *)
(* category come earlier in the same file is added.                        *)
ImportResolvesReferences ==
    [][result'.op = "import_data" =>
          LET file == result'.arg[1]
              ops == Added(operations, operations')
          IN  /\ \A i \in 1 .. Len(ops) :
                    /\ DictHas(accounts', ops[i].bank_account_id)
                    /\ ops[i].category_id # None =>
                          DictHas(categories', ops[i].category_id[1])
              /\ \A i \in 1 .. Len(accounts) :
                    (\A j \in 1 .. Len(ops) : ops[j].bank_account_id # accounts[i].id)
                    => accounts'[i] = accounts[i]
              /\ \A k \in 1 .. Len(file.operations) :
                    LET o == file.operations[k]
                    IN  (/\ ~DictHas(operations, o.id)
                         /\ First(file.operations, o.id) = k
                         /\ ~DictHas(accounts, o.bank_account_id)
                         /\ DictHas(accounts', o.bank_account_id)
                         /\ o.category_id # None
                         /\ ~DictHas(categories, o.category_id[1])
                         /\ DictHas(categories', o.category_id[1]))
                        => DictGet(operations', o.id) = Some(o)]_vars

(* C25: after an import the balance of every account is the balance it had *)
(* (or, for an account the import brought, the balance of its record) plus *)
(* the amounts of the Income operations the import added for it minus the  *)
(* amounts of the Expense operations it added for it; the proxy's next     *)
(* get_by_id and get_all return the accounts with these balances; and an   *)
(* import of one operation leaves the accounts as a create_operation with  *)
(* the same type, account, amount and category that succeeds leaves them.  *)
ImportMovesBalance ==
    [][result'.op = "import_data" =>
          LET file == result'.arg[1]
              ops == Added(operations, operations')
              opened(id) == IF DictHas(accounts, id) THEN DictGet(accounts, id)[1].balance
                            ELSE file.accounts[First(file.accounts, id)].balance
              mine(id) == SelectSeq(ops, LAMBDA o : o.bank_account_id = id)
              created == create_operation(W, file.operations[1].type,
                                          file.operations[1].bank_account_id,
                                          file.operations[1].amount,
                                          file.operations[1].category_id)
          IN  /\ \A i \in 1 .. Len(accounts') :
                    accounts'[i].balance =
                       opened(accounts'[i].id) + Total(mine(accounts'[i].id), INCOME)
                                               - Total(mine(accounts'[i].id), EXPENSE)
              /\ \A id \in AccountIds : (Proxy_get_by_id(W, id).val = DictGet(accounts, id))'
              /\ (Proxy_get_all(W).val = accounts)'
              /\ (/\ file.accounts = <<>> /\ file.categories = <<>>
                  /\ Len(file.operations) = 1 /\ Len(ops) = 1
                  /\ IsOk(created))
                 => accounts' = created.w.accounts]_vars

(* an income and an expense were imported for two stored accounts *)
ImportMovesBalanceWitness ==
    /\ pc = 1
    /\ accounts = <<BankAccount(1, Main, 3), BankAccount(2, Main, -3)>>
    /\ Len(operations) = 2
    /\ result.val = Some([accounts |-> 0, categories |-> 0, operations |-> 2])

---------------------------------------------------------------------------
(* The importers.  A file is read as three lists of raw records, list      *)
(* telling whether its top-level value is a list rather than a dict (a     *)
(* list holds its items under the section of their kind).  A field         *)
(* of a raw record is absent (None) or holds a value; a value that is to   *)
(* become a number is a number (Num) or some other text (Str).  A CSV cell *)
(* holding the text of a number is Num as well.                            *)

Num(n) == [num |-> TRUE, n |-> n, s |-> ""]
Str(s) == [num |-> FALSE, n |-> 0, s |-> s]

Converted(v) == [err |-> NoError, val |-> v]
Failed(kind) == [err |-> Error(kind, "", None), val |-> None]

(* Decimal(str(v)): decimal.InvalidOperation is an ArithmeticError *)
Decimal_str(v) == IF v.num THEN Converted(Some(v.n)) ELSE Failed("InvalidOperation")

(* float(cell) *)
float(v) == IF v.num THEN Converted(Some(v.n)) ELSE Failed("ValueError")

(* d[key] *)
Subscript(field) == IF field = None THEN Failed("KeyError") ELSE Converted(field)

(* OperationType(value) *)
OperationType_of(value) ==
    IF value \in OperationType THEN Converted(Some(value)) ELSE Failed("ValueError")

(* datetime.strptime(value, '%Y-%m-%d') *)
strptime(value) == IF value = "2024-01-01" THEN Converted(Some(value)) ELSE Failed("ValueError")

(* except (KeyError, ValueError) *)
Caught(e) == e.kind \in {"KeyError", "ValueError"}

(* the first of the results rs that failed, or the last of them *)
RECURSIVE FirstFailure(_)
FirstFailure(rs) ==
    IF Len(rs) = 1 \/ Head(rs).err # NoError THEN Head(rs) ELSE FirstFailure(Tail(rs))

convert_account(account_data) ==
    LET name == Subscript(account_data.name)
        key == Subscript(account_data.balance)
        balance == IF key.err # NoError THEN key ELSE Decimal_str(key.val[1])
        r == FirstFailure(<<name, balance>>)
    IN  IF r.err # NoError THEN r
        ELSE Converted(Some(BankAccount(account_data.id, name.val[1], balance.val[1])))

convert_category(category_data) ==
    LET key == Subscript(category_data.type)
        category_type == IF key.err # NoError THEN key ELSE OperationType_of(key.val[1])
        name == Subscript(category_data.name)
        r == FirstFailure(<<category_type, name>>)
    IN  IF r.err # NoError THEN r
        ELSE Converted(Some(Category(category_data.id, category_type.val[1], name.val[1])))

convert_operation(operation_data) ==
    LET key == Subscript(operation_data.type)
        operation_type == IF key.err # NoError THEN key ELSE OperationType_of(key.val[1])
        amount_key == Subscript(operation_data.amount)
        amount == IF amount_key.err # NoError THEN amount_key
                  ELSE Decimal_str(amount_key.val[1])
        date == strptime(operation_data.date)
        r == FirstFailure(<<operation_type, amount, date>>)
    IN  IF r.err # NoError THEN r
        ELSE Converted(Some(Operation(operation_data.id, operation_type.val[1],
                                      operation_data.bank_account_id, amount.val[1],
                                      operation_data.category_id)))

convert(section, record) ==
    CASE section = "accounts" -> convert_account(record)
      [] section = "categories" -> convert_category(record)
      [] section = "operations" -> convert_operation(record)

(* one loop of _convert_to_domain_objects: a failure the except clause     *)
(* names drops the record, any other failure leaves the loop and the call  *)
RECURSIVE convert_each(_, _, _)
RECURSIVE except_clause(_, _, _, _)
except_clause(section, raws, out, r) ==
    IF r.err = NoError THEN convert_each(section, raws, Append(out, r.val[1]))
    ELSE IF Caught(r.err) THEN convert_each(section, raws, out)
    ELSE r

convert_each(section, raws, out) ==
    IF raws = <<>> THEN Converted(out)
    ELSE except_clause(section, Tail(raws), out, convert(section, Head(raws)))

(* the three sections in turn, gathered in a dict; what leaves one of them *)
(* leaves the call                                                         *)
Sections(a, c, o) ==
    IF a.err # NoError THEN a
    ELSE IF c.err # NoError THEN c
    ELSE IF o.err # NoError THEN o
    ELSE Converted([list |-> FALSE, accounts |-> a.val, categories |-> c.val,
                    operations |-> o.val])

_convert_to_domain_objects(data) ==
    Sections(convert_each("accounts", data.accounts, <<>>),
             convert_each("categories", data.categories, <<>>),
             convert_each("operations", data.operations, <<>>))

(* CSVDataImporter._parse_data: a row with fewer cells than its section    *)
(* needs is dropped, a numeric cell is read with float(), and nothing      *)
(* catches what float() raises                                             *)
enough_parts(section, row) ==
    CASE section = "accounts" -> row.name # None /\ row.balance # None
      [] section = "categories" -> row.type # None /\ row.name # None
      [] section = "operations" -> row.type # None /\ row.amount # None

parse_row(section, row) ==
    CASE section = "accounts" -> float(row.balance[1])
      [] section = "categories" -> Converted(None)
      [] section = "operations" -> float(row.amount[1])

RECURSIVE parse_rows(_, _, _)
RECURSIVE append_row(_, _, _, _, _)
append_row(section, rows, out, row, r) ==
    IF r.err # NoError THEN r ELSE parse_rows(section, rows, Append(out, row))

parse_rows(section, rows, out) ==
    IF rows = <<>> THEN Converted(out)
    ELSE IF ~enough_parts(section, Head(rows)) THEN parse_rows(section, Tail(rows), out)
    ELSE append_row(section, Tail(rows), out, Head(rows), parse_row(section, Head(rows)))

CSV_parse_data(data) ==
    Sections(parse_rows("accounts", data.accounts, <<>>),
             parse_rows("categories", data.categories, <<>>),
             parse_rows("operations", data.operations, <<>>))

(* raw_data = super().import_data(file_path); self._convert_to_domain_objects(raw_data) *)
convert_parsed(raw_data) ==
    IF raw_data.err # NoError THEN raw_data ELSE _convert_to_domain_objects(raw_data.val)

(* DataImporter._validate_data: `section not in data` is true of a list of *)
(* dicts, and data[section] = [] on a list raises TypeError; the sections  *)
(* of a dict are all there in this model                                   *)
_validate_data(parsed_data) ==
    IF parsed_data.err # NoError THEN parsed_data
    ELSE IF parsed_data.val.list THEN Failed("TypeError")
    ELSE parsed_data

(* importer.import_data(file_path) for the three formats; json.loads and   *)
(* yaml.safe_load give the value the file holds                            *)
Importer_import_data(format_type, data) ==
    IF format_type = "csv" THEN convert_parsed(_validate_data(CSV_parse_data(data)))
    ELSE convert_parsed(_validate_data(Converted(data)))

(* what the importer raises is caught by the outer except of _import_data, *)
(* which prints it and returns                                             *)
merge(w, imported_data) ==
    IF imported_data.err # NoError THEN [w |-> w, err |-> imported_data.err, val |-> None]
    ELSE import_data(w, imported_data.val)

_import_data(w, format_type, data) == merge(w, Importer_import_data(format_type, data))

---------------------------------------------------------------------------
(* SpecConvert: a file of up to MaxRecords account records, one category   *)
(* record and one operation record, any of which may lack a field or hold  *)
(* text where a number or a date is expected, is imported from each of the *)
(* three formats into a ledger that is empty or holds one account.  The    *)
(* k-th account record of a file has id k.                                 *)

RawAccount(id) ==
    [id : {id}, name : Optional({Other}), balance : Optional({Num(5), Str("abc")})]

RawAccountLists ==
    UNION {{f \in [1 .. k -> UNION {RawAccount(id) : id \in 1 .. k}] :
               \A i \in 1 .. k : f[i].id = i} : k \in 0 .. MaxRecords}

RawCategoryLists ==
    {<<>>} \cup {<<r>> : r \in [id : {1}, type : Optional({INCOME, "bad"}),
                                 name : {Some(Other)}]}

RawOperationLists ==
    {<<>>} \cup {<<r>> : r \in [id : {1}, type : {Some(INCOME)}, bank_account_id : {1},
                                 amount : Optional({Num(3), Str("abc")}),
                                 date : {"2024-01-01", "bad"}, category_id : {None}]}

RawFiles ==
    [list : {FALSE}, accounts : RawAccountLists, categories : RawCategoryLists,
     operations : RawOperationLists]

Formats == {"json", "csv", "yaml"}

Wellformed(account_data) ==
    /\ account_data.name # None
    /\ account_data.balance # None /\ account_data.balance[1].num

(* the observation keeps the format and the file *)
ImportFile(format_type, data) ==
    ScenarioCall("_import_data", Some([format_type |-> format_type, data |-> data]),
                 _import_data(W, format_type, data), 1)

NextConvert ==
    \/ pc = 0 /\ Quiet(create_account(W, Main, 0))
    \/ pc = 0 /\ \E format_type \in Formats, data \in RawFiles : ImportFile(format_type, data)

SpecConvert == Init /\ [][NextConvert]_vars

(* C26: an import of a file returns normally; every account record of the *)
(* file that has its name and a number as its balance is stored afterwards *)
(* (with that balance moved by the operation of the file, if it is new)    *)
(* whatever the other records of the file are, and an account record that  *)
(* lacks a field or holds text as its balance adds no account; on an empty *)
(* ledger the number of accounts reported is the number of the former.     *)
BadRecordsSkipped ==
    [][result'.op = "_import_data" =>
          LET data == result'.arg[1].data
              good == {k \in 1 .. Len(data.accounts) : Wellformed(data.accounts[k])}
          IN  /\ result'.err = NoError
              /\ \A k \in good :
                    DictGet(accounts', k) =
                       IF DictHas(accounts, k)
                       THEN Some([DictGet(accounts, k)[1] EXCEPT
                                     !.balance = Effect(operations', k, @)])
                       ELSE Some(BankAccount(k, data.accounts[k].name[1],
                                     Effect(operations', k, data.accounts[k].balance[1].n)))
              /\ \A k \in 1 .. Len(data.accounts) :
                    k \notin good => (DictHas(accounts', k) <=> DictHas(accounts, k))
              /\ accounts = <<>> => result'.val # None
                                    /\ result'.val[1].accounts = Cardinality(good)]_vars

---------------------------------------------------------------------------
(* The export visitors and _export_data.  Each visit_* gives the text of   *)
(* one file: JSON and YAML dump a list of dicts, CSV writes a section      *)
(* marker, a header and the rows.  float(Decimal) is written and read back *)
(* through its text, which keeps the integers of this model.               *)

visit_accounts(format_type, accs) ==
    [list |-> format_type # "csv",
     accounts |-> [i \in 1 .. Len(accs) |->
                     [id |-> accs[i].id, name |-> Some(accs[i].name),
                      balance |-> Some(Num(accs[i].balance))]],
     categories |-> <<>>, operations |-> <<>>]

visit_categories(format_type, cats) ==
    [list |-> format_type # "csv", accounts |-> <<>>,
     categories |-> [i \in 1 .. Len(cats) |->
                       [id |-> cats[i].id, type |-> Some(cats[i].type),
                        name |-> Some(cats[i].name)]],
     operations |-> <<>>]

(* the CSV visitor writes `op.category_id or ""`, and the CSV parser reads *)
(* an empty cell as None                                                   *)
visit_operations(format_type, ops) ==
    [list |-> format_type # "csv", accounts |-> <<>>, categories |-> <<>>,
     operations |-> [i \in 1 .. Len(ops) |->
                       [id |-> ops[i].id, type |-> Some(ops[i].type),
                        bank_account_id |-> ops[i].bank_account_id,
                        amount |-> Some(Num(ops[i].amount)), date |-> "2024-01-01",
                        category_id |-> IF format_type = "csv" /\ ~Truthy(ops[i].category_id)
                                        THEN None ELSE ops[i].category_id]]]

_export_data(w, format_type) ==
    [accounts |-> visit_accounts(format_type, get_all_accounts(w).val),
     categories |-> visit_categories(format_type, CategoryRepository_get_all(w)),
     operations |-> visit_operations(format_type, OperationRepository_get_all(w))]

---------------------------------------------------------------------------
(* SpecRoundTrip: a ledger is built through the facades, exported in one   *)
(* of the three formats, and the three files are imported, accounts first, *)
(* then categories, then operations, into a new application with empty     *)
(* stores.  After the round trip the variables hold the stores of the new  *)
(* application and result.val the records of the exported ledger.          *)

Fresh == [accounts |-> <<>>, accounts_next_id |-> 1,
          categories |-> <<>>, categories_next_id |-> 1,
          operations |-> <<>>, operations_next_id |-> 1,
          cache |-> {}, all_cache |-> None]

Reimport(format_type, files) ==
    _import_data(_import_data(_import_data(Fresh, format_type, files.accounts).w,
                              format_type, files.categories).w,
                 format_type, files.operations)

RoundTrip(format_type) ==
    /\ Set(Reimport(format_type, _export_data(W, format_type)).w)
    /\ result' = [op |-> "round_trip", arg |-> Some(format_type), err |-> NoError,
                  val |-> Some([accounts |-> accounts, categories |-> categories,
                                operations |-> operations])]
    /\ pc' = 1

NextRoundTrip ==
    \/ pc = 0 /\ \E b \in {0, 1} : Quiet(create_account(W, Main, b))
    \/ pc = 0 /\ \E t \in OperationType : Quiet(create_category(W, Main, t))
    \/ pc = 0 /\ \E t \in OperationType, a \in 1 .. MaxAccounts, c \in Optional({1}) :
                    Quiet(create_operation(W, t, a, 1, c))
    \/ pc = 0 /\ \E format_type \in Formats : RoundTrip(format_type)

SpecRoundTrip == Init /\ [][NextRoundTrip]_vars

(* C27: after a round trip the new stores hold the accounts (id, name and  *)
(* balance), the categories and the operations (id, type, account, amount  *)
(* and category) of the exported ledger, and no others.                    *)
RoundTripReproduces ==
    result.op = "round_trip" =>
        /\ Range(accounts) = Range(result.val[1].accounts)
        /\ Range(categories) = Range(result.val[1].categories)
        /\ Range(operations) = Range(result.val[1].operations)

---------------------------------------------------------------------------
(* Period analytics.  The operations carry their date here, a day number.  *)
(* float(total) keeps the integers of this model.                          *)

get_by_date_range_exclusive(ops, start_date, end_date) ==
    SelectSeq(ops, LAMBDA op : start_date <= op.date /\ op.date < end_date)

get_by_date_range(ops, start_date, end_date) ==
    SelectSeq(ops, LAMBDA op : start_date <= op.date /\ op.date <= end_date)

PeriodBalanceStrategy_analyze(ops, start_date, end_date) ==
    LET period_operations ==
            SelectSeq(ops, LAMBDA op : start_date <= op.date /\ op.date <= end_date)
        total_income == Total(period_operations, INCOME)
        total_expense == Total(period_operations, EXPENSE)
        balance == total_income - total_expense
    IN  [total_income |-> total_income, total_expense |-> total_expense,
         balance |-> balance, period_operations_count |-> Len(period_operations)]

analyze_period_balance(w, start_date, end_date) ==
    PeriodBalanceStrategy_analyze(get_by_date_range(w.operations, start_date, end_date),
                                  start_date, end_date)

---------------------------------------------------------------------------
(* SpecPeriod: the operation store holds any operations dated day 1 to 3,  *)
(* and the period report is asked for any window of days 0 to 4, empty     *)
(* windows included.                                                       *)

Days == 1 .. 3

DatedOperations ==
    [id : 1 .. MaxOperations, type : OperationType, bank_account_id : {1},
     amount : {1, 2}, category_id : {None}, date : Days]

InitPeriod ==
    /\ accounts = <<BankAccount(1, Main, 0)>> /\ accounts_next_id = 2
    /\ categories = <<>> /\ categories_next_id = 1
    /\ operations \in {ops \in SeqsUpTo(DatedOperations, MaxOperations) :
                          \A i \in 1 .. Len(ops) : ops[i].id = i}
    /\ operations_next_id = Len(operations) + 1
    /\ cache = {} /\ all_cache = None
    /\ result = NoResult
    /\ pc = 0

(* the observation keeps the window *)
AnalyzePeriodBalance(start_date, end_date) ==
    /\ result' = [op |-> "analyze_period_balance",
                  arg |-> Some([start_date |-> start_date, end_date |-> end_date]),
                  err |-> NoError,
                  val |-> Some(analyze_period_balance(W, start_date, end_date))]
    /\ pc' = 1
    /\ UNCHANGED <<stores, cache, all_cache>>

NextPeriod == \E start_date \in 0 .. 4, end_date \in 0 .. 4 :
                 AnalyzePeriodBalance(start_date, end_date)

SpecPeriod == InitPeriod /\ [][NextPeriod]_vars

(* C29: the period report counts the stored operations dated from the      *)
(* start to the end of the window, both days included, sums the amounts of *)
(* the Income and of the Expense ones among them, and its balance is the   *)
(* first sum minus the second; filtering a filtered list again by the same *)
(* window changes neither the list nor the report.                         *)
PeriodInclusive ==
    result.op = "analyze_period_balance" =>
        LET start == result.arg[1].start_date
            end == result.arg[1].end_date
            inside == {i \in 1 .. Len(operations) :
                          operations[i].date \in start .. end}
            amounts(t) == [i \in 1 .. Len(operations) |->
                             IF i \in inside /\ operations[i].type = t
                             THEN operations[i] ELSE [operations[i] EXCEPT !.amount = 0]]
            report == result.val[1]
            once == get_by_date_range(operations, start, end)
        IN  /\ report.period_operations_count = Cardinality(inside)
            /\ report.total_income = Total(amounts(INCOME), INCOME)
            /\ report.total_expense = Total(amounts(EXPENSE), EXPENSE)
            /\ report.balance = report.total_income - report.total_expense
            /\ get_by_date_range(once, start, end) = once
            /\ PeriodBalanceStrategy_analyze(once, start, end) = report
            /\ PeriodBalanceStrategy_analyze(operations, start, end) = report

(* one operation dated the first and last day of the window is counted,    *)
(* one dated the day after is not                                          *)
PeriodInclusiveWitness ==
    /\ result.op = "analyze_period_balance"
    /\ result.arg[1].start_date = 2 /\ result.arg[1].end_date = 2
    /\ Len(operations) = 2
    /\ operations[1].date = 2 /\ operations[1].type = EXPENSE /\ operations[1].amount = 2
    /\ operations[2].date = 3
    /\ result.val = Some([total_income |-> 0, total_expense |-> 2, balance |-> -2,
                          period_operations_count |-> 1])

---------------------------------------------------------------------------
(* Category analytics.  A dict keyed by category name is a function on the *)
(* names it holds.                                                         *)

(* d[name] = d.get(name, 0) + float(amount) *)
DictAdd(d, name, amount) ==
    [n \in DOMAIN d \cup {name} |->
        (IF n \in DOMAIN d THEN d[n] ELSE 0) + (IF n = name THEN amount ELSE 0)]

(* next((cat for cat in categories if cat.id == category_id), None) *)
FirstCategory(cats, category_id) ==
    LET found == SelectSeq(cats, LAMBDA cat : cat.id = category_id)
    IN  IF found = <<>> THEN None ELSE Some(Head(found))

EmptyReport ==
    [income_by_category |-> <<>>, expense_by_category |-> <<>>,
     uncategorized_operations |-> 0]

analyze_operation(operation, cats, report) ==
    IF Truthy(operation.category_id)
    THEN LET category == FirstCategory(cats, operation.category_id[1])
         IN  IF category = None THEN report
             ELSE IF operation.type = INCOME
             THEN [report EXCEPT !.income_by_category =
                                    DictAdd(@, category[1].name, operation.amount)]
             ELSE [report EXCEPT !.expense_by_category =
                                    DictAdd(@, category[1].name, operation.amount)]
    ELSE [report EXCEPT !.uncategorized_operations = @ + 1]

RECURSIVE CategoryAnalysisStrategy_analyze(_, _, _)
CategoryAnalysisStrategy_analyze(ops, cats, report) ==
    IF ops = <<>> THEN report
    ELSE CategoryAnalysisStrategy_analyze(Tail(ops), cats,
                                          analyze_operation(Head(ops), cats, report))

analyze_categories(w) ==
    CategoryAnalysisStrategy_analyze(OperationRepository_get_all(w),
                                     CategoryRepository_get_all(w), EmptyReport)

---------------------------------------------------------------------------
(* SpecCategories: a ledger with one account is built through the facades, *)
(* its category may be deleted, and the category report over all           *)
(* operations is asked for at any moment.                                  *)

AnalyzeCategories ==
    /\ result' = [op |-> "analyze_categories", arg |-> None, err |-> NoError,
                  val |-> Some(analyze_categories(W))]
    /\ pc' = 1
    /\ UNCHANGED <<stores, cache, all_cache>>

NextCategories ==
    \/ Quiet(create_account(W, Main, 0))
    \/ \E t \in OperationType : Quiet(create_category(W, Main, t))
    \/ \E t \in OperationType, m \in {1, 2}, c \in Optional(CategoryIds) :
          Quiet(create_operation(W, t, 1, m, c))
    \/ \E id \in 1 .. MaxCategories : Quiet(delete_category(W, id))
    \/ AnalyzeCategories

SpecCategories == Init /\ [][NextCategories]_vars

(* C30: in the category report the uncategorized counter is the number of  *)
(* stored operations whose category_id is null, and for each type and each *)
(* stored category the sum under the category's name is the sum of the     *)
(* amounts of the operations of that type whose category has that name,    *)
(* the name being absent when there is no such operation.                  *)
CategoryReport ==
    result.op = "analyze_categories" =>
        LET report == result.val[1]
            by(t) == IF t = INCOME THEN report.income_by_category
                     ELSE report.expense_by_category
            named(t, n) == {i \in 1 .. Len(operations) :
                              /\ operations[i].type = t
                              /\ operations[i].category_id # None
                              /\ \E k \in 1 .. Len(categories) :
                                    /\ categories[k].id = operations[i].category_id[1]
                                    /\ categories[k].name = n}
            amounts(t, n) == [i \in 1 .. Len(operations) |->
                                IF i \in named(t, n) THEN operations[i]
                                ELSE [operations[i] EXCEPT !.amount = 0]]
        IN  /\ report.uncategorized_operations =
                  Cardinality({i \in 1 .. Len(operations) : operations[i].category_id = None})
            /\ \A t \in OperationType :
                  /\ DOMAIN by(t) = {categories[k].name : k \in {j \in 1 .. Len(categories) :
                                                        named(t, categories[j].name) # {}}}
                  /\ \A n \in DOMAIN by(t) : by(t)[n] = Total(amounts(t, n), t)

---------------------------------------------------------------------------
(* Summary statistics.  The report is a dict, a function on the keys it   *)
(* holds.  A mean is the quotient total / count, kept as the fraction it  *)
(* is; the 0 of an empty class is the fraction 0 / 1.                     *)

Quotient(total, count) == [num |-> total, den |-> count]

get_operations_statistics(w) ==
    LET ops == OperationRepository_get_all(w)
        income_operations == SelectSeq(ops, LAMBDA op : op.type = INCOME)
        expense_operations == SelectSeq(ops, LAMBDA op : op.type = EXPENSE)
        total_income == Total(income_operations, INCOME)
        total_expense == Total(expense_operations, EXPENSE)
    IN  IF ops = <<>>
        THEN [total_operations |-> 0]
        ELSE [total_operations |-> Len(ops),
              income_operations |-> Len(income_operations),
              expense_operations |-> Len(expense_operations),
              total_income |-> total_income,
              total_expense |-> total_expense,
              average_income |->
                  IF income_operations # <<>>
                  THEN Quotient(total_income, Len(income_operations)) ELSE Quotient(0, 1),
              average_expense |->
                  IF expense_operations # <<>>
                  THEN Quotient(total_expense, Len(expense_operations)) ELSE Quotient(0, 1)]

---------------------------------------------------------------------------
(* SpecStatistics: operations of both types are recorded and deleted on    *)
(* up to MaxAccounts accounts, and the summary statistics are asked for at *)
(* any moment, on the empty operation store too.                           *)

GetOperationsStatistics ==
    /\ result' = [op |-> "get_operations_statistics", arg |-> None, err |-> NoError,
                  val |-> Some(get_operations_statistics(W))]
    /\ pc' = 1
    /\ UNCHANGED <<stores, cache, all_cache>>

NextStatistics ==
    \/ \E b \in {0, 2} : Quiet(create_account(W, Main, b))
    \/ \E t \in OperationType, a \in 1 .. MaxAccounts, m \in {1, 2} :
          Quiet(create_operation(W, t, a, m, None))
    \/ \E id \in 1 .. MaxOperations : Quiet(delete_operation(W, id))
    \/ GetOperationsStatistics

SpecStatistics == Init /\ [][NextStatistics]_vars

(* C31: whatever operations are stored, none included, the statistics hold *)
(* the number of operations, of Income and of Expense operations, the two  *)
(* totals and the two means; the mean of a class is its total over its     *)
(* count, and 0 when the class is empty.                                   *)
StatisticsComplete ==
    result.op = "get_operations_statistics" =>
        LET report == result.val[1]
            class(t) == {i \in 1 .. Len(operations) : operations[i].type = t}
            mean(t) == IF class(t) = {} THEN Quotient(0, 1)
                       ELSE Quotient(Total(operations, t), Cardinality(class(t)))
        IN  /\ DOMAIN report = {"total_operations", "income_operations",
                                "expense_operations", "total_income", "total_expense",
                                "average_income", "average_expense"}
            /\ report.total_operations = Len(operations)
            /\ report.income_operations = Cardinality(class(INCOME))
            /\ report.expense_operations = Cardinality(class(EXPENSE))
            /\ report.total_income = Total(operations, INCOME)
            /\ report.total_expense = Total(operations, EXPENSE)
            /\ report.average_income = mean(INCOME)
            /\ report.average_expense = mean(EXPENSE)

---------------------------------------------------------------------------
(* SpecSnapshot: a client asks a repository or the proxy for get_all and   *)
(* then changes the list it was given: it appends an entity that is not    *)
(* stored, pops the first item, or reverses the list.  result.val is the   *)
(* list the client holds and result.arg the store it came from.  A list    *)
(* from a repository is list(dict.values()), an object of its own (pc =    *)
(* 2).  The list from the proxy is the object the proxy keeps as           *)
(* _all_cache (pc = 1), until a call through the facades gives the ledger  *)
(* its next state and the client lets go of the list (pc = 0).             *)

Foreign(store) ==
    CASE store = "accounts" -> BankAccount(0, Other, 0)
      [] store = "categories" -> Category(0, INCOME, Other)
      [] store = "operations" -> Operation(0, INCOME, 0, 1, None)

Reverse(s) == [i \in 1 .. Len(s) |-> s[Len(s) + 1 - i]]

(* list.append(x), list.pop(0), list.reverse() *)
Mutated(held, kind, store) ==
    CASE kind = "append" -> Append(held, Foreign(store))
      [] kind = "pop" -> IF held = <<>> THEN held ELSE Tail(held)
      [] kind = "reverse" -> Reverse(held)

Repository_get_all(w, store) ==
    CASE store = "accounts" -> BankAccountRepository_get_all(w)
      [] store = "categories" -> CategoryRepository_get_all(w)
      [] store = "operations" -> OperationRepository_get_all(w)

Hold(op, store, held, p) ==
    result' = [op |-> op, arg |-> Some(store), err |-> NoError, val |-> Some(held)] /\ pc' = p

SnapshotProxyGetAll ==
    LET r == Proxy_get_all(W)
    IN  Set(r.w) /\ Hold("Proxy.get_all", "accounts", r.val, 1)

SnapshotGetAll(store) ==
    /\ Hold("Repository.get_all", store, Repository_get_all(W, store), 2)
    /\ UNCHANGED <<stores, cache, all_cache>>

MutateList(kind) ==
    /\ pc \in {1, 2}
    /\ Len(result.val[1]) <= MaxAccounts + 1
    /\ Hold("mutate", result.arg[1], Mutated(result.val[1], kind, result.arg[1]), pc)
    /\ all_cache' = IF pc = 1 THEN result'.val ELSE all_cache
    /\ UNCHANGED <<stores, cache>>

NextSnapshot ==
    \/ Quiet(create_account(W, Main, 0))
    \/ Quiet(create_category(W, Main, INCOME))
    \/ \E a \in 1 .. MaxAccounts : Quiet(create_operation(W, INCOME, a, 1, None))
    \/ SnapshotProxyGetAll
    \/ \E store \in {"accounts", "categories", "operations"} : SnapshotGetAll(store)
    \/ \E kind \in {"append", "pop", "reverse"} : MutateList(kind)

SpecSnapshot == Init /\ [][NextSnapshot]_vars

(* C32: get_all gives the stored entities in insertion order, from a       *)
(* repository and from the proxy; and when the client changes the list it  *)
(* was given, the three stores stay as they were and the next get_all and  *)
(* get_by_id of the proxy still answer what the account store holds.       *)
GetAllSnapshotSafe ==
    [][/\ result'.op = "Repository.get_all" =>
             result'.val = Some(Repository_get_all(W, result'.arg[1]))
       /\ result'.op = "Proxy.get_all" => result'.val = Some(accounts)
       /\ result'.op = "mutate" =>
             /\ UNCHANGED stores
             /\ (Proxy_get_all(W).val = accounts)'
             /\ \A id \in AccountIds : (Proxy_get_by_id(W, id).val = DictGet(accounts, id))']_vars

---------------------------------------------------------------------------
(* SpecNames: every call of the account facade and of the category facade  *)
(* that takes a name is made with every name, blank ones included.         *)

NextNames ==
    \/ \E name \in CreateNames : Do("create_account", None, create_account(W, name, 0))
    \/ \E id \in AccountIds, name \in CreateNames :
          Do("update_account", Some(id), update_account(W, id, name))
    \/ \E id \in AccountIds : Do("delete_account", Some(id), delete_account(W, id))
    \/ \E name \in CreateNames, t \in OperationType :
          Do("create_category", None, create_category(W, name, t))
    \/ \E id \in CategoryIds, name \in CreateNames, t \in OperationType :
          Do("update_category", Some(id), update_category(W, id, name, t))
    \/ \E id \in CategoryIds : Do("delete_category", Some(id), delete_category(W, id))

SpecNames == Init /\ [][NextNames]_vars

(* C33: the name of every stored account and of every stored category has  *)
(* a character that is not whitespace.                                     *)
NamesNonEmpty ==
    /\ \A i \in 1 .. Len(accounts) : strip(accounts[i].name) # <<>>
    /\ \A i \in 1 .. Len(categories) : strip(categories[i].name) # <<>>

---------------------------------------------------------------------------
(* SpecOrphan: the facades never remove an account that operations refer   *)
(* to, so the account is removed here by a client of the account           *)
(* repository, through the proxy the facades share.  delete_operation is   *)
(* watched; pc is 1 after a delete_operation of a stored operation whose   *)
(* account was not stored.                                                 *)

Orphan(w, operation_id) ==
    /\ DictHas(w.operations, operation_id)
    /\ ~DictHas(w.accounts, DictGet(w.operations, operation_id)[1].bank_account_id)

OrphanDeleteOperation(id) ==
    DoAt("delete_operation", Some(id), delete_operation(W, id), IF Orphan(W, id) THEN 1 ELSE 0)

NextOrphan ==
    \/ \E b \in {0, 1} : Quiet(create_account(W, Main, b))
    \/ \E t \in OperationType, a \in 1 .. MaxAccounts : Quiet(create_operation(W, t, a, 2, None))
    \/ Quiet(get_all_accounts(W))
    \/ \E id \in 1 .. MaxAccounts : Quiet(Proxy_delete(W, id))
    \/ \E id \in OperationIds : OrphanDeleteOperation(id)

SpecOrphan == Init /\ [][NextOrphan]_vars

(* C34: delete_operation of a stored operation whose account is not stored *)
(* returns normally, removes that operation and nothing else from the      *)
(* operation store, and leaves every account, the category store and the   *)
(* next-id hints as they were.                                             *)
OrphanDeleted ==
    [][pc' = 1 =>
          /\ result'.err = NoError
          /\ operations' = SelectSeq(operations, LAMBDA o : o.id # result'.arg[1])
          /\ Len(operations') = Len(operations) - 1
          /\ accounts' = accounts
          /\ UNCHANGED <<accounts_next_id, operations_next_id,
                         categories, categories_next_id>>]_vars

(* an operation of a removed account was deleted while another account    *)
(* with its own operation is stored                                       *)
OrphanDeletedWitness ==
    /\ pc = 1
    /\ result.op = "delete_operation" /\ IsOk(result)
    /\ Len(accounts) = 1 /\ accounts[1].balance # 0
    /\ Len(operations) = 1 /\ operations[1].bank_account_id = accounts[1].id
    /\ all_cache # None

---------------------------------------------------------------------------
(* Import against create_operation, under SpecImport.                      *)

---------------------------------------------------------------------------
(* SpecVisible: the account facade and the operation facade work on one    *)
(* ledger through the one proxy create_facades gives them both.  Accounts  *)
(* are read singly and as a list, which fills the proxy's caches, and the  *)
(* calls that move a balance are watched: result.arg keeps the id, type    *)
(* and amount given, and pc is 1 when a cache was filled as the call       *)
(* began.                                                                  *)

Cached == IF all_cache # None \/ cache # {} THEN 1 ELSE 0

VisibleCreateOperation(t, a, m) ==
    DoAt("create_operation", Some([id |-> a, type |-> t, amount |-> m]),
         create_operation(W, t, a, m, None), Cached)

VisibleDeleteOperation(id) ==
    DoAt("delete_operation", Some([id |-> id, type |-> "", amount |-> 0]),
         delete_operation(W, id), Cached)

VisibleRecalculateBalance(id) ==
    DoAt("recalculate_balance", Some([id |-> id, type |-> "", amount |-> 0]),
         recalculate_balance(W, id), Cached)

NextVisible ==
    \/ \E b \in {0, 1} : Quiet(create_account(W, Main, b))
    \/ Quiet(get_all_accounts(W))
    \/ \E id \in 1 .. MaxAccounts : Quiet(get_account(W, id))
    \/ \E id \in 1 .. MaxOperations : Quiet(update_operation(W, id, None, Some(2), None))
    \/ \E t \in OperationType, a \in 1 .. MaxAccounts : VisibleCreateOperation(t, a, 1)
    \/ \E id \in 1 .. MaxOperations : VisibleDeleteOperation(id)
    \/ \E id \in 1 .. MaxAccounts : VisibleRecalculateBalance(id)

SpecVisible == Init /\ [][NextVisible]_vars

(* C36: after a create_operation, delete_operation or recalculate_balance  *)
(* that succeeds, get_account of every id and get_all_accounts return the  *)
(* accounts as they were but with the new balance of the account the call  *)
(* was about: the old balance moved by the amount created, moved back by   *)
(* the amount deleted, or the signed sum of the account's operations; also *)
(* when the account list or the account had been read just before.         *)
BalanceVisible ==
    [][(result'.op \in {"create_operation", "delete_operation", "recalculate_balance"}
        /\ IsOk(result')) =>
          LET arg == result'.arg[1]
              operation == DictGet(operations, arg.id)[1]
              a == IF result'.op = "delete_operation" THEN operation.bank_account_id
                   ELSE arg.id
              old == DictGet(accounts, a)[1].balance
              new == CASE result'.op = "create_operation" ->
                             IF arg.type = INCOME THEN old + arg.amount ELSE old - arg.amount
                        [] result'.op = "delete_operation" ->
                             IF operation.type = INCOME THEN old - operation.amount
                             ELSE old + operation.amount
                        [] result'.op = "recalculate_balance" ->
                             Total(get_by_account_id(W, a), INCOME)
                                - Total(get_by_account_id(W, a), EXPENSE)
              expected == [i \in 1 .. Len(accounts) |->
                             IF accounts[i].id = a
                             THEN [accounts[i] EXCEPT !.balance = new] ELSE accounts[i]]
          IN  ProxyVisible' = [all |-> expected,
                               by_id |-> [id \in AccountIds |-> DictGet(expected, id)]]]_vars

(* the accounts were read, then an operation that update_operation had     *)
(* changed from 1 to 2 was deleted: the balance went from 2 to 0           *)
BalanceVisibleWitness ==
    /\ pc = 1
    /\ result.op = "delete_operation" /\ IsOk(result)
    /\ accounts = <<BankAccount(1, Main, 0), BankAccount(2, Main, 0)>>
    /\ operations = <<Operation(1, INCOME, 2, 1, None)>>
    /\ operations_next_id = 3

---------------------------------------------------------------------------
(* SpecIds: entities are created and deleted through the facades, and are  *)
(* added under ids of the caller's choosing and updated by a client of the *)
(* repositories; the operations that come this way refer to an account     *)
(* that is not stored, so that deleting them moves no balance.  result.val *)
(* keeps, for each store, the ids that were ever added to it.              *)

Ids(d) == {d[i].id : i \in 1 .. Len(d)}

Ever ==
    IF result.val = None THEN [accounts |-> {}, categories |-> {}, operations |-> {}]
    ELSE result.val[1]

Track(op, r) ==
    /\ Step(r.w)
    /\ result' = [op |-> op, arg |-> None, err |-> r.err,
                  val |-> Some([accounts |-> Ever.accounts \cup Ids(r.w.accounts),
                                categories |-> Ever.categories \cup Ids(r.w.categories),
                                operations |-> Ever.operations \cup Ids(r.w.operations)])]
    /\ pc' = 0

NextIds ==
    \/ Track("create_account", create_account(W, Main, 1))
    \/ Track("create_category", create_category(W, Main, INCOME))
    \/ \E a \in 1 .. MaxAccounts : Track("create_operation", create_operation(W, INCOME, a, 1, None))
    \/ \E id \in 1 .. MaxAccounts : Track("delete", delete_account(W, id))
    \/ \E id \in 1 .. MaxCategories : Track("delete", delete_category(W, id))
    \/ \E id \in 1 .. MaxOperations : Track("delete", delete_operation(W, id))
    \/ \E id \in 1 .. MaxAccounts : Track("add", Proxy_add(W, BankAccount(id, Main, 0)))
    \/ \E id \in 1 .. MaxCategories : Track("add", CategoryRepository_add(W, Category(id, INCOME, Main)))
    \/ \E id \in 1 .. MaxOperations :
          Track("add", OperationRepository_add(W, Operation(id, INCOME, 0, 1, None)))
    \/ \E id \in 1 .. MaxAccounts : Track("update", update_account(W, id, Other))
    \/ \E id \in 1 .. MaxOperations :
          Track("update", OperationRepository_update(W, Operation(id, INCOME, 0, 1, None)))

SpecIds == Init /\ [][NextIds]_vars

(* C37: in each store the next-id hint never decreases, and the entities a *)
(* facade creates (the account and its opening operation, the category,    *)
(* the operation) get ids greater than every id that was ever added to     *)
(* their store, deleted ones included.                                     *)
IdsNeverReused ==
    [][/\ accounts_next_id' >= accounts_next_id
       /\ categories_next_id' >= categories_next_id
       /\ operations_next_id' >= operations_next_id
       /\ (result'.op \in {"create_account", "create_category", "create_operation"}
           /\ IsOk(result')) =>
             /\ \A id \in Ids(accounts') \ Ids(accounts) : \A e \in Ever.accounts : id > e
             /\ \A id \in Ids(categories') \ Ids(categories) :
                   \A e \in Ever.categories : id > e
             /\ \A id \in Ids(operations') \ Ids(operations) :
                   \A e \in Ever.operations : id > e]_vars

(* account 1 and operation 1 were deleted, and the operation created next  *)
(* on the account created next has id 2                                    *)
IdsNeverReusedWitness ==
    /\ result.op = "create_operation" /\ IsOk(result)
    /\ Ids(accounts) = {2} /\ result.val[1].accounts = {1, 2}
    /\ Ids(operations) = {2} /\ result.val[1].operations = {1, 2}
    /\ operations[1].bank_account_id = 2

---------------------------------------------------------------------------
(* The order of the checks of create_operation, under SpecCreateOperation. *)

(* C38: create_operation reports the first check that fails, the checks    *)
(* being in this order: the account is stored (else NotFound), the         *)
(* category, when one is given, is stored (else NotFound), that category   *)
(* has the type of the operation (else InvalidState), the amount is        *)
(* greater than zero (else ValidationFailed); it succeeds when none fails. *)
FirstFailingCheck ==
    [][\A t \in OperationType, a \in AccountIds, m \in CreateAmounts,
         c \in Optional(CategoryIds) :
           CreateOperation(t, a, m, c) =>
              result'.err =
                 IF ~DictHas(accounts, a) THEN Error("NotFound", "account", Some(a))
                 ELSE IF c # None /\ ~DictHas(categories, c[1])
                 THEN Error("NotFound", "category", c)
                 ELSE IF c # None /\ DictGet(categories, c[1])[1].type # t
                 THEN Error("InvalidState", "category type", None)
                 ELSE IF m <= 0 THEN Error("ValidationFailed", "amount", None)
                 ELSE NoError]_vars

---------------------------------------------------------------------------
(* SpecImportFresh: one converted file is imported into a new application, *)
(* whose stores are empty.  The accounts of the file carry a balance of 0  *)
(* or 3 and its operations an amount of 3, so that the files include those *)
(* whose balances are the signed sums of their operations, as an export of *)
(* a ledger holds them.                                                    *)

FreshFiles ==
    [accounts : SeqsUpTo({BankAccount(id, Other, b) : id \in 1 .. MaxAccounts, b \in {0, 3}},
                         MaxAccounts),
     categories : {<<>>},
     operations : SeqsUpTo({Operation(id, t, a, 3, None) :
                               id \in 1 .. MaxOperations, t \in OperationType,
                               a \in 1 .. MaxAccounts}, MaxOperations)]

NextImportFresh == pc = 0 /\ \E imported_data \in FreshFiles : ImportData(imported_data)

SpecImportFresh == Init /\ [][NextImportFresh]_vars

(* C39: after the import, into empty stores, of a file in which no id is    *)
(* repeated and the balance of every account is the signed sum of the      *)
(* file's operations on it, the balance of every stored account is the     *)
(* value recalculate_balance gives for it, the signed sum of its stored    *)
(* operations.                                                             *)
ImportKeepsDerivation ==
    pc = 1 =>
        LET file == result.arg[1]
        IN  (/\ UniqueIds(file.accounts) /\ UniqueIds(file.operations)
             /\ \A k \in 1 .. Len(file.accounts) :
                   file.accounts[k].balance =
                      Effect(file.operations, file.accounts[k].id, 0))
            => \A i \in 1 .. Len(accounts) :
                  recalculate_balance(W, accounts[i].id).val = Some(accounts[i].balance)

---------------------------------------------------------------------------
(* The category report against the operations analysed, under              *)
(* SpecCategories.                                                         *)

(* C40: in the category report the number of stored operations that add to *)
(* a sum by category, plus the uncategorized counter, is the number of     *)
(* stored operations, also when the category of an operation has been      *)
(* deleted.                                                                *)
EveryOperationCounted ==
    result.op = "analyze_categories" =>
        LET alone(i) == analyze_operation(operations[i], categories, EmptyReport)
            summed == {i \in 1 .. Len(operations) :
                          \/ DOMAIN alone(i).income_by_category # {}
                          \/ DOMAIN alone(i).expense_by_category # {}}
        IN  Cardinality(summed) + result.val[1].uncategorized_operations = Len(operations)

====
